---- MODULE Spec2Model ----
(***************************************************************************)
(* Job-lifecycle orchestrator of the background service worker             *)
(* (src/unnamed/part_001).  The worker is one JavaScript event loop: every *)
(* handler runs until its next `await`, so one action of this module is    *)
(* the code between two suspension points of one handler.  The handlers    *)
(* that are suspended at an `await` are the records of the bag `tasks`.    *)
(*                                                                         *)
(* The browser (tabs, timers, alarms, storage), the content script in the  *)
(* executor tab and the backend queue are the environment; what they may   *)
(* do is drawn from small sets.  The model covers an installation whose    *)
(* API url, API key and client id are set (pollForJob returns at lines     *)
(* 216-224 before touching any state otherwise).                           *)
(***************************************************************************)
EXTENDS Integers, Sequences, FiniteSets, Bags, TLC

\* ---- bounds of the model (budgets of environment events) ----
MaxTabs == 1        \* tabs chrome.tabs.create hands out in one run
MaxSignals == 1     \* outcome messages one executor tab may deliver
MaxTicks == 1       \* firings of the poll alarm
MaxStarts == 1      \* START_POLLING requests
MaxStops == 1       \* STOP_POLLING requests
MaxCrashes == 1     \* executor tabs destroyed from outside
MaxFaults == 1      \* environment calls that fail (backend, tabs.create, START_JOB)

\* ---- program constants ----
MAX_TAB_CLOSURE_RETRIES == 3
HISTORY_LIMIT == 50
TAB_LOAD_ATTEMPTS == 30
PING_ATTEMPTS == 20

Jobs == {"j1", "j2"}
NoJob == "none"
NoTab == 0

VARIABLES
    isRunning,          \* storage: STORAGE_KEYS.IS_RUNNING
    alarm,              \* the ALARM_NAMES.JOB_POLL alarm exists
    stats,              \* storage: STORAGE_KEYS.STATS
    history,            \* storage: STORAGE_KEYS.JOB_HISTORY, newest first
    activeJobs,         \* Map tab id -> job (NoJob: no entry)
    jobTimeouts,        \* keys of the Map tab id -> timeout handle
    tabClosureRetries,  \* Map job id -> local retry count (domain = keys)
    timers,             \* browser: tabs whose JOB_TIMEOUT timer is still pending
    openTabs,           \* browser: tabs that exist
    nextTabId,          \* browser: id the next created tab gets
    removed,            \* browser: tabs.onRemoved events not yet delivered
    exec,               \* executor tab: "loading" | "complete" | "ready" | "running"
    tabJob,             \* executor tab: the job its START_JOB carried / it was opened for
    signals,            \* executor tab: outcome messages delivered so far
    queue,              \* backend: status of each job of the queue
    tasks,              \* handlers suspended at an await (bag of records)
    log,                \* history of the run: observable events (bag of records)
    crashed,            \* history of the run: the retry count onRemoved read for a
                        \* tab whose entry it found, -1 before
    starts, stops, ticks, crashes, faults, \* environment events used so far
    limit,              \* how many of them the run may see (fixed by Init)
    retrySettings,      \* storage: STORAGE_KEYS.RETRY_ATTEMPTS / MAX_RETRY_DELAY (0: not set)
    script,             \* content script of one tab: "loaded" | "destroyed"
    received,           \* content script: START_JOB messages its listener has seen
    runs,               \* content script: automateExclusiveSale promises not yet settled
    outbox,             \* content script: what it has sent, in order (answers and messages)
    response,           \* ApiClient.request: what fetch did for the call (status, body)
    result,             \* ApiClient.request: how the call ended (NoResult before)
    pending,            \* backend: ids of the queue items with status pending
    cancel,             \* cancelAllPendingJobs: its locals and position
    logs,               \* storage: STORAGE_KEYS.LOGS, oldest first
    logCalls            \* Logger.log calls suspended at an await (bag of records)

vars == <<isRunning, alarm, stats, history, activeJobs, jobTimeouts,
          tabClosureRetries, timers, openTabs, nextTabId, removed, exec,
          tabJob, signals, queue, tasks, log, crashed, starts, stops, ticks,
          crashes, faults, limit, retrySettings, script, received, runs, outbox,
          response, result, pending, cancel, logs, logCalls>>

orchestrator == <<activeJobs, jobTimeouts, tabClosureRetries>>
storage == <<isRunning, stats, history>>
browser == <<alarm, timers, openTabs, nextTabId, removed>>
executor == <<exec, tabJob, signals>>
contentScript == <<script, received, runs, outbox>>
apiClient == <<response, result, pending, cancel>>
logger == <<logs, logCalls>>
library == <<retrySettings, contentScript, apiClient, logger>>
budget == <<starts, stops, ticks, crashes, faults, limit, library>>
otherBudget == <<starts, stops, ticks, crashes, limit, library>>

\* the tab ids the browser may hand out in this run
Tabs == 1..limit.tabs

\* an environment call goes well, or fails while the run may still see a failure
Outcome(ok) ==
    /\ ok \/ faults < limit.faults
    /\ faults' = IF ok THEN faults ELSE faults + 1

\* ---- records ----
InitialStats == [processed |-> 0, succeeded |-> 0, failed |-> 0, currentJob |-> NoJob]

\* A suspended handler.  tab is the handler's tabId argument (NoTab: null);
\* inst is the tab of the job instance the handler is working for (kept for
\* the event log only, the code does not have it when tabId is null).
Task(kind, pc, job, tab, inst, cause) ==
    [kind |-> kind, pc |-> pc, job |-> job, tab |-> tab, inst |-> inst,
     cause |-> cause, att |-> 0, st |-> InitialStats, hs |-> <<>>]

Event(ev, inst, job, cause) == [ev |-> ev, inst |-> inst, job |-> job, cause |-> cause]

One(x) == SetToBag({x})
Logged(ev) == log (+) One(ev)
Count(S) == LET b == [e \in S \cap DOMAIN log |-> log[e]] IN BagCardinality(b)
Events(ev, inst) == {e \in DOMAIN log : e.ev = ev /\ e.inst = inst}
NumEvents(ev, inst) == Count(Events(ev, inst))

Suspend(t) == tasks' = tasks (+) One(t)
Resume(old, new) == tasks' = (tasks (-) One(old)) (+) One(new)
Return(old) == tasks' = tasks (-) One(old)
Waiting(kind, pc) == {k \in DOMAIN tasks : k.kind = kind /\ k.pc = pc}

\* ---- Map helpers ----
MapGet(m, k) == IF k \in DOMAIN m THEN m[k] ELSE 0
MapSet(m, k, v) == [x \in DOMAIN m \cup {k} |-> IF x = k THEN v ELSE m[x]]
MapDelete(m, k) == [x \in DOMAIN m \ {k} |-> m[x]]

\* ---- history list ----
\* variant of slice(0, n) that keeps the last n records
TakeLast(s, n) == IF Len(s) <= n THEN s ELSE SubSeq(s, Len(s) - n + 1, Len(s))
Take(s, n) == IF Len(s) <= n THEN s ELSE SubSeq(s, 1, n)

\* addJobToHistory: unshift, then slice(0, 50)
addJobToHistory(h, job, status) ==
    Take(<<[id |-> job, status |-> status]>> \o h, HISTORY_LIMIT)

\* findIndex: first index whose id matches, 0 for -1
findIndex(h, job) ==
    IF \E i \in 1..Len(h) : h[i].id = job
    THEN CHOOSE i \in 1..Len(h) : h[i].id = job /\ \A k \in 1..(i - 1) : h[k].id # job
    ELSE 0

\* variant of lines 63-68 that writes the list back as it was read
historyUntouched(h, job, status) == h
\* variant of lines 63-66 that sets the status of every record of the job
updateAllInHistory(h, job, status) ==
    [i \in 1..Len(h) |-> IF h[i].id = job THEN [h[i] EXCEPT !.status = status] ELSE h[i]]
\* updateJobInHistory: the list it writes back (the list read when no record matches)
updateJobInHistory(h, job, status) ==
    IF findIndex(h, job) = 0 THEN h
    ELSE [h EXCEPT ![findIndex(h, job)].status = status]

\* ---- the parts of the extension outside the worker's dispatch path ----
NoResponse == [fetch |-> "none", status |-> 0, body |-> "none"]
NoResult == [threw |-> FALSE, kind |-> "none", message |-> "none"]
NoCancel ==
    [pc |-> "idle", page |-> 0, got |-> 0, items |-> <<>>, cancelled |-> 0,
     atStart |-> 0, failed |-> 0]

\* nothing of them is in use: no retry setting stored, the content script
\* loaded and idle, no request, an empty queue listing, an empty log
LibraryIdle ==
    /\ retrySettings = [retryAttempts |-> 0, maxRetryDelay |-> 0]
    /\ script = "loaded"
    /\ received = 0
    /\ runs = {}
    /\ outbox = <<>>
    /\ response = NoResponse
    /\ result = NoResult
    /\ pending = {}
    /\ cancel = NoCancel
    /\ logs = <<>>
    /\ logCalls = EmptyBag

\* The worker's state with polling off (running = FALSE: after install) or on
\* (running = TRUE: after a START_POLLING whose first poll found the queue
\* empty), the backend queue q and the budgets lim of the run.
InitWith(running, q, lim) ==
    /\ isRunning = running
    /\ alarm = running
    /\ stats = InitialStats
    /\ history = <<>>
    /\ activeJobs = [t \in 1..lim.tabs |-> NoJob]
    /\ jobTimeouts = {}
    /\ tabClosureRetries = <<>>
    /\ timers = {}
    /\ openTabs = {}
    /\ nextTabId = 1
    /\ removed = {}
    /\ exec = [t \in 1..lim.tabs |-> "loading"]
    /\ tabJob = [t \in 1..lim.tabs |-> NoJob]
    /\ signals = [t \in 1..lim.tabs |-> 0]
    /\ queue = q
    /\ tasks = EmptyBag
    /\ log = EmptyBag
    /\ crashed = [t \in 1..lim.tabs |-> -1]
    /\ starts = 0 /\ stops = 0 /\ ticks = 0 /\ crashes = 0 /\ faults = 0
    /\ LibraryIdle
    /\ limit = lim

OneJobQueued == [j \in Jobs |-> IF j = "j1" THEN "pending" ELSE "completed"]
AllJobsQueued == [j \in Jobs |-> "pending"]

Init ==
    InitWith(FALSE, OneJobQueued,
             [tabs |-> MaxTabs, signals |-> MaxSignals, ticks |-> MaxTicks,
              crashes |-> MaxCrashes, faults |-> MaxFaults])

\* ---- handleJobFailure, the part that runs before its first await ----
\* lines 437-449: clear the timeout and drop the entry when a tab id is
\* given, then drop the job's local retry counter.
failureTimeouts(s, tab) == IF tab # NoTab THEN s \ {tab} ELSE s
failureTimers(tm, s, tab) == IF tab # NoTab /\ tab \in s THEN tm \ {tab} ELSE tm
failureActive(a, tab) == IF tab # NoTab THEN [a EXCEPT ![tab] = NoJob] ELSE a
failureRetries(r, job) == MapDelete(r, job)
failureTask(tab, job, inst, cause) == Task("handleJobFailure", "report", job, tab, inst, cause)

\* ---- polling control (popup / console messages) ----

\* START_POLLING message: set isRunning, then startPolling()
StartPollingMessage ==
    /\ starts < MaxStarts
    /\ starts' = starts + 1
    /\ isRunning' = TRUE
    /\ Suspend(Task("startPolling", "health", NoJob, NoTab, NoTab, "control"))
    /\ UNCHANGED <<alarm, stats, history, orchestrator, timers, openTabs, nextTabId,
                   removed, executor, queue, log, crashed, stops, ticks, crashes, faults, limit,
                   library>>

\* startPolling: the health check answers or throws (catch: isRunning := false)
StartPollingHealth ==
    \E k \in Waiting("startPolling", "health") : \E ok \in BOOLEAN :
        /\ Outcome(ok)
        /\ IF ok
           THEN /\ Resume(k, [k EXCEPT !.pc = "alarm"])
                /\ UNCHANGED isRunning
           ELSE /\ Return(k)
                /\ isRunning' = FALSE
        /\ UNCHANGED <<alarm, stats, history, orchestrator, timers, openTabs, nextTabId,
                       removed, executor, queue, log, crashed, otherBudget>>

\* startPolling: create the alarm, then await pollForJob()
StartPollingAlarm ==
    \E k \in Waiting("startPolling", "alarm") :
        /\ alarm' = TRUE
        /\ Resume(k, Task("pollForJob", "check", NoJob, NoTab, NoTab, "poll"))
        /\ UNCHANGED <<storage, orchestrator, timers, openTabs, nextTabId,
                       removed, executor, queue, log, crashed, budget>>

\* STOP_POLLING message: clear isRunning, then stopPolling()
StopPollingMessage ==
    /\ stops < MaxStops
    /\ stops' = stops + 1
    /\ isRunning' = FALSE
    /\ Suspend(Task("stopPolling", "clear", NoJob, NoTab, NoTab, "control"))
    /\ UNCHANGED <<alarm, stats, history, orchestrator, timers, openTabs, nextTabId,
                   removed, executor, queue, log, crashed, starts, ticks, crashes, faults, limit,
                   library>>

\* variant of stopPolling that also drops the registry, the timeouts and
\* the retry counters and closes the executor tabs
StopPollingKillAll ==
    \E k \in Waiting("stopPolling", "clear") :
        /\ alarm' = FALSE
        /\ activeJobs' = [t \in DOMAIN activeJobs |-> NoJob]
        /\ jobTimeouts' = {}
        /\ timers' = {}
        /\ tabClosureRetries' = <<>>
        /\ openTabs' = {}
        /\ Return(k)
        /\ UNCHANGED <<storage, nextTabId, removed, executor, queue, log, crashed, budget>>

\* stopPolling: clear the alarm
StopPollingClear ==
    \E k \in Waiting("stopPolling", "clear") :
        /\ alarm' = FALSE
        /\ Return(k)
        /\ UNCHANGED <<storage, orchestrator, timers, openTabs, nextTabId,
                       removed, executor, queue, log, crashed, budget>>

\* chrome.alarms.onAlarm: the poll alarm fires and calls pollForJob()
AlarmFires ==
    /\ alarm
    /\ ticks < limit.ticks
    /\ ticks' = ticks + 1
    /\ Suspend(Task("pollForJob", "check", NoJob, NoTab, NoTab, "poll"))
    /\ UNCHANGED <<storage, alarm, orchestrator, timers, openTabs, nextTabId,
                   removed, executor, queue, log, crashed, starts, stops, crashes, faults, limit,
                   library>>

\* variant of line 201 that goes on whatever the flag
pollAlways(flag) == TRUE
\* lines 200-201: the stored flag is set
pollEnabled(flag) == flag

\* pollForJob: read the enabled flag; return when it is not set
PollCheckEnabled ==
    \E k \in Waiting("pollForJob", "check") :
        /\ IF pollEnabled(isRunning) THEN Resume(k, [k EXCEPT !.pc = "fetch"]) ELSE Return(k)
        /\ UNCHANGED <<storage, orchestrator, browser, executor, queue, log, crashed, budget>>

\* pollForJob: getNextJob answers a pending job (the backend marks it
\* processing) or null; a job goes to processJob
PollFetch ==
    \E k \in Waiting("pollForJob", "fetch") :
        \E j \in {x \in Jobs : queue[x] = "pending"} \cup {NoJob} :
            /\ IF j = NoJob
               THEN /\ Return(k)
                    /\ UNCHANGED queue
               ELSE /\ queue' = [queue EXCEPT ![j] = "processing"]
                    /\ Resume(k, Task("processJob", "statsGet", j, NoTab, NoTab, "poll"))
            /\ UNCHANGED <<storage, orchestrator, browser, executor, log, crashed, budget>>

\* ---- processJob ----

\* the catch block of processJob: handleJobFailure(null, job.id, message)
processJobCatch(k) ==
    /\ tabClosureRetries' = failureRetries(tabClosureRetries, k.job)
    /\ Resume(k, failureTask(NoTab, k.job, k.tab, "delivery"))
    /\ log' = Logged(Event("deliveryFailure", k.tab, k.job, "delivery"))

ProcessJobReadStats ==
    \E k \in Waiting("processJob", "statsGet") :
        /\ Resume(k, [k EXCEPT !.pc = "statsSet", !.st = stats])
        /\ UNCHANGED <<storage, orchestrator, browser, executor, queue, log, crashed, budget>>

ProcessJobWriteStats ==
    \E k \in Waiting("processJob", "statsSet") :
        /\ stats' = [k.st EXCEPT !.currentJob = k.job]
        /\ Resume(k, [k EXCEPT !.pc = "historyGet", !.st = InitialStats])
        /\ UNCHANGED <<isRunning, history, orchestrator, browser, executor, queue, log, crashed, budget>>

ProcessJobReadHistory ==
    \E k \in Waiting("processJob", "historyGet") :
        /\ Resume(k, [k EXCEPT !.pc = "historySet", !.hs = history])
        /\ UNCHANGED <<storage, orchestrator, browser, executor, queue, log, crashed, budget>>

ProcessJobWriteHistory ==
    \E k \in Waiting("processJob", "historySet") :
        /\ history' = addJobToHistory(k.hs, k.job, "processing")
        /\ Resume(k, [k EXCEPT !.pc = "create", !.hs = <<>>])
        /\ UNCHANGED <<isRunning, stats, orchestrator, browser, executor, queue, log, crashed, budget>>

\* chrome.tabs.create answers a tab (lines 287-297: register the job, arm
\* the timeout) or no tab id (throw, caught)
ProcessJobCreateTab ==
    \E k \in Waiting("processJob", "create") : \E ok \in BOOLEAN :
        /\ nextTabId <= limit.tabs
        /\ Outcome(ok)
        /\ IF ok
           THEN /\ nextTabId' = nextTabId + 1
                /\ openTabs' = openTabs \cup {nextTabId}
                /\ exec' = [exec EXCEPT ![nextTabId] = "loading"]
                /\ tabJob' = [tabJob EXCEPT ![nextTabId] = k.job]
                /\ activeJobs' = [activeJobs EXCEPT ![nextTabId] = k.job]
                /\ jobTimeouts' = jobTimeouts \cup {nextTabId}
                /\ timers' = timers \cup {nextTabId}
                /\ Resume(k, [k EXCEPT !.pc = "load", !.tab = nextTabId,
                                       !.inst = nextTabId, !.att = 1])
                /\ UNCHANGED <<tabClosureRetries, log>>
           ELSE /\ processJobCatch(k)
                /\ UNCHANGED <<nextTabId, openTabs, exec, tabJob, activeJobs,
                               jobTimeouts, timers>>
        /\ UNCHANGED <<storage, alarm, removed, signals, queue, crashed, otherBudget>>

\* variant of the loop test of lines 301 and 318 that allows one round more
oneMoreAttempt(attempt, maxAttempts) == attempt <= maxAttempts
\* lines 301 and 318, `attempt++; attempt <= maxAttempts`: after round
\* `attempt` there is another round
moreAttempts(attempt, maxAttempts) == attempt < maxAttempts

\* waitForTabLoad, one round: chrome.tabs.get rejects for a tab that is gone,
\* returns on status complete, throws after the last attempt
ProcessJobWaitForTabLoad ==
    \E k \in Waiting("processJob", "load") :
        /\ IF k.tab \notin openTabs
           THEN processJobCatch(k)
           ELSE IF exec[k.tab] # "loading"
           THEN /\ Resume(k, [k EXCEPT !.pc = "ping", !.att = 1])
                /\ UNCHANGED <<tabClosureRetries, log>>
           ELSE IF moreAttempts(k.att, TAB_LOAD_ATTEMPTS)
           THEN /\ Resume(k, [k EXCEPT !.att = k.att + 1])
                /\ UNCHANGED <<tabClosureRetries, log>>
           ELSE processJobCatch(k)
        /\ UNCHANGED <<storage, activeJobs, jobTimeouts, browser, executor, queue, crashed, budget>>

\* variant of line 323 that takes any answered PING for a ready one
pingAnswered(tab) == tab \in openTabs /\ exec[tab] \in {"complete", "ready", "running"}
\* lines 322-323: the PING is answered (the tab exists) with ready = true
pingReady(tab) == tab \in openTabs /\ exec[tab] \in {"ready", "running"}

\* waitForContentScript, one round: a PING answered ready returns; a
\* rejection or any other answer goes to the next attempt; throws after the last
ProcessJobWaitForContentScript ==
    \E k \in Waiting("processJob", "ping") :
        /\ IF pingReady(k.tab)
           THEN /\ Resume(k, [k EXCEPT !.pc = "start", !.att = 0])
                /\ UNCHANGED <<tabClosureRetries, log>>
           ELSE IF moreAttempts(k.att, PING_ATTEMPTS)
           THEN /\ Resume(k, [k EXCEPT !.att = k.att + 1])
                /\ UNCHANGED <<tabClosureRetries, log>>
           ELSE processJobCatch(k)
        /\ UNCHANGED <<storage, activeJobs, jobTimeouts, browser, executor, queue, crashed, budget>>

\* variant of line 345 that takes any answer to START_JOB for an acknowledgment
answered(tab, ack) == tab \in openTabs
\* lines 340-345: the send resolves (the tab exists) with received = true
acknowledged(tab, ack) == tab \in openTabs /\ ack

\* START_JOB: the send rejects (tab gone), or is answered received = true
\* (the executor starts the job), or is answered anything else (throw)
ProcessJobSendStart ==
    \E k \in Waiting("processJob", "start") : \E ack \in BOOLEAN :
        /\ Outcome(ack)
        /\ IF acknowledged(k.tab, ack)
           THEN /\ exec' = [exec EXCEPT ![k.tab] = "running"]
                /\ Return(k)
                /\ UNCHANGED <<tabClosureRetries, log>>
           ELSE /\ processJobCatch(k)
                /\ UNCHANGED exec
        /\ UNCHANGED <<storage, activeJobs, jobTimeouts, browser, tabJob, signals, queue,
                       crashed, otherBudget>>


\* ---- the executor tab and the browser ----

\* the page of an executor tab finishes loading (tab.status = 'complete')
TabLoads(t) ==
    /\ t \in openTabs
    /\ exec[t] = "loading"
    /\ exec' = [exec EXCEPT ![t] = "complete"]
    /\ UNCHANGED <<storage, orchestrator, browser, tabJob, signals, queue, tasks, log,
                   crashed, budget>>

\* the content script of a loaded tab starts answering PING
ContentScriptReady(t) ==
    /\ t \in openTabs
    /\ exec[t] = "complete"
    /\ exec' = [exec EXCEPT ![t] = "ready"]
    /\ UNCHANGED <<storage, orchestrator, browser, tabJob, signals, queue, tasks, log,
                   crashed, budget>>

\* an executor tab is destroyed from outside (closed by the operator, crash)
TabDestroyed(t) ==
    /\ t \in openTabs
    /\ crashes < limit.crashes
    /\ crashes' = crashes + 1
    /\ openTabs' = openTabs \ {t}
    /\ removed' = removed \cup {t}
    /\ UNCHANGED <<storage, orchestrator, alarm, timers, nextTabId, executor, queue,
                   tasks, log, crashed, starts, stops, ticks, faults, limit,
                   library>>

\* chrome.tabs.remove called by a finalizing handler.  The handler has
\* deleted the tab's entry before, and tab ids are not reused, so the
\* onRemoved listener returns at line 535 for this removal: no event is queued.
tabsRemove(tab) == openTabs' = openTabs \ {tab}

\* clearTimeout(jobTimeouts.get(tab)) under `if (timeoutId)`
clearTimeout(tm, keys, tab) == IF tab \in keys THEN tm \ {tab} ELSE tm

\* handleJobTimeout line 362: `if (!job) return`
timeoutFindsNoEntry(t) == activeJobs[t] = NoJob

\* variant of line 548 that still retries at the ceiling
uptoCeiling(retryCount) == retryCount <= MAX_TAB_CLOSURE_RETRIES
\* line 548: retryCount < MAX_TAB_CLOSURE_RETRIES
belowCeiling(retryCount) == retryCount < MAX_TAB_CLOSURE_RETRIES

\* chrome.tabs.onRemoved listener
OnRemoved(t) ==
    /\ t \in removed
    /\ removed' = removed \ {t}
    /\ IF activeJobs[t] = NoJob
       THEN UNCHANGED <<orchestrator, timers, tasks, log, crashed>>
       ELSE LET job == activeJobs[t]
                retryCount == MapGet(tabClosureRetries, job)
            IN  /\ activeJobs' = [activeJobs EXCEPT ![t] = NoJob]
                /\ jobTimeouts' = jobTimeouts \ {t}
                /\ timers' = clearTimeout(timers, jobTimeouts, t)
                /\ crashed' = [crashed EXCEPT ![t] = retryCount]
                /\ IF belowCeiling(retryCount)
                   THEN /\ tabClosureRetries' = MapSet(tabClosureRetries, job, retryCount + 1)
                        /\ Suspend(Task("onRemoved", "delay", job, t, t, "crash"))
                        /\ UNCHANGED log
                   ELSE /\ tabClosureRetries' =
                               failureRetries(MapDelete(tabClosureRetries, job), job)
                        /\ Suspend(failureTask(NoTab, job, t, "crash"))
                        /\ UNCHANGED log
    /\ UNCHANGED <<storage, alarm, openTabs, nextTabId, executor, queue, budget>>

\* onRemoved listener after its 2 s delay: processJob(job) again
OnRemovedRetry ==
    \E k \in Waiting("onRemoved", "delay") :
        /\ Resume(k, Task("processJob", "statsGet", k.job, NoTab, NoTab, "retry"))
        /\ log' = Logged(Event("redispatch", k.inst, k.job, "crash"))
        /\ UNCHANGED <<storage, orchestrator, browser, executor, queue, crashed, budget>>

\* handleJobTimeout: the JOB_TIMEOUT timer of a tab fires
HandleJobTimeout(t) ==
    /\ t \in timers
    /\ timers' = timers \ {t}
    /\ IF timeoutFindsNoEntry(t)
       THEN UNCHANGED <<orchestrator, tasks>>
       ELSE /\ jobTimeouts' = failureTimeouts(jobTimeouts, t)
            /\ activeJobs' = failureActive(activeJobs, t)
            /\ tabClosureRetries' = failureRetries(tabClosureRetries, activeJobs[t])
            /\ Suspend(failureTask(t, activeJobs[t], t, "timeout"))
    /\ UNCHANGED <<storage, alarm, openTabs, nextTabId, removed, executor, queue, log,
                   crashed, budget>>

\* runtime.onMessage listener, JOB_SUCCESS from tab t: handleJobSuccess up
\* to its first await (lines 373-382: clear the timeout)
JobSuccessMessage(t) ==
    /\ t \in openTabs
    /\ exec[t] = "running"
    /\ signals[t] < limit.signals
    /\ signals' = [signals EXCEPT ![t] = signals[t] + 1]
    /\ timers' = clearTimeout(timers, jobTimeouts, t)
    /\ jobTimeouts' = jobTimeouts \ {t}
    /\ Suspend(Task("handleJobSuccess", "report", tabJob[t], t, t, "signal"))
    /\ UNCHANGED <<storage, activeJobs, tabClosureRetries, alarm, openTabs, nextTabId,
                   removed, exec, tabJob, queue, log, crashed, budget>>

\* runtime.onMessage listener, JOB_FAILED from tab t: handleJobFailure up
\* to its first await
JobFailedMessage(t) ==
    /\ t \in openTabs
    /\ exec[t] = "running"
    /\ signals[t] < limit.signals
    /\ signals' = [signals EXCEPT ![t] = signals[t] + 1]
    /\ timers' = failureTimers(timers, jobTimeouts, t)
    /\ jobTimeouts' = failureTimeouts(jobTimeouts, t)
    /\ activeJobs' = failureActive(activeJobs, t)
    /\ tabClosureRetries' = failureRetries(tabClosureRetries, tabJob[t])
    /\ Suspend(failureTask(t, tabJob[t], t, "signal"))
    /\ UNCHANGED <<storage, alarm, openTabs, nextTabId, removed, exec, tabJob, queue,
                   log, crashed, budget>>


\* ---- handleJobSuccess after its first await ----

\* completeJob: the backend records the completion, or the call throws
\* (catch at line 418: log only)
HandleJobSuccessReport ==
    \E k \in Waiting("handleJobSuccess", "report") : \E ok \in BOOLEAN :
        /\ Outcome(ok)
        /\ IF ok
           THEN /\ queue' = [queue EXCEPT ![k.job] = "completed"]
                /\ Resume(k, [k EXCEPT !.pc = "statsGet"])
                /\ log' = Logged(Event("completeJob", k.inst, k.job, k.cause))
           ELSE /\ Return(k)
                /\ log' = Logged(Event("completeJob", k.inst, k.job, k.cause))
                          (+) One(Event("reportThrew", k.inst, k.job, k.cause))
                /\ UNCHANGED queue
        /\ UNCHANGED <<storage, orchestrator, browser, executor, crashed, otherBudget>>

HandleJobSuccessReadStats ==
    \E k \in Waiting("handleJobSuccess", "statsGet") :
        /\ Resume(k, [k EXCEPT !.pc = "statsSet", !.st = stats])
        /\ UNCHANGED <<storage, orchestrator, browser, executor, queue, log, crashed, budget>>

\* variant of lines 399-402 that leaves out succeeded++
countProcessedOnly(st) == [st EXCEPT !.processed = @ + 1, !.currentJob = NoJob]
\* lines 399-402: processed++, succeeded++, delete currentJob
countSucceeded(st) ==
    [st EXCEPT !.processed = @ + 1, !.succeeded = @ + 1, !.currentJob = NoJob]

\* lines 399-404: processed++, succeeded++, delete currentJob, write back
HandleJobSuccessWriteStats ==
    \E k \in Waiting("handleJobSuccess", "statsSet") :
        /\ stats' = countSucceeded(k.st)
        /\ Resume(k, [k EXCEPT !.pc = "historyGet", !.st = InitialStats])
        /\ log' = Logged(Event("counted", k.inst, k.job, k.cause))
        /\ UNCHANGED <<isRunning, history, orchestrator, browser, executor, queue,
                       crashed, budget>>

\* updateJobInHistory: read the list; no write when no record has the id
HandleJobSuccessReadHistory ==
    \E k \in Waiting("handleJobSuccess", "historyGet") :
        /\ IF findIndex(history, k.job) = 0
           THEN Resume(k, [k EXCEPT !.pc = "close"])
           ELSE Resume(k, [k EXCEPT !.pc = "historySet", !.hs = history])
        /\ UNCHANGED <<storage, orchestrator, browser, executor, queue, log, crashed, budget>>

HandleJobSuccessWriteHistory ==
    \E k \in Waiting("handleJobSuccess", "historySet") :
        /\ history' = updateJobInHistory(k.hs, k.job, "completed")
        /\ Resume(k, [k EXCEPT !.pc = "close", !.hs = <<>>])
        /\ UNCHANGED <<isRunning, stats, orchestrator, browser, executor, queue, log,
                       crashed, budget>>

\* what handleJobSuccess leaves of activeJobs at lines 411-413
\* variant of line 412 that leaves the entry in place
successActiveKept(a, tab) == a
successActive(a, tab) == [a EXCEPT ![tab] = NoJob]

\* lines 411-417: drop the entry and the retry counter, close the tab
HandleJobSuccessCleanUp ==
    \E k \in Waiting("handleJobSuccess", "close") :
        /\ activeJobs' = successActive(activeJobs, k.tab)
        /\ tabClosureRetries' = MapDelete(tabClosureRetries, k.job)
        /\ tabsRemove(k.tab)
        /\ Return(k)
        /\ log' = Logged(Event("returned", k.inst, k.job, "success"))
        /\ UNCHANGED <<storage, jobTimeouts, alarm, timers, nextTabId, removed, executor,
                       queue, crashed, budget>>

\* ---- handleJobFailure after its first await ----

\* failJob: the backend records the failure and answers willRetry (the job
\* is pending again when it will), or the call throws (catch at line 492)
HandleJobFailureReport ==
    \E k \in Waiting("handleJobFailure", "report") :
        \E answer \in {"willRetry", "noRetry", "throws"} :
            /\ Outcome(answer # "throws")
            /\ IF answer = "throws"
               THEN /\ Return(k)
                    /\ log' = Logged(Event("failJob", k.inst, k.job, k.cause))
                              (+) One(Event("reportThrew", k.inst, k.job, k.cause))
                    /\ UNCHANGED queue
               ELSE /\ queue' = [queue EXCEPT ![k.job] =
                                    IF answer = "willRetry" THEN "pending" ELSE "failed"]
                    /\ Resume(k, [k EXCEPT !.pc = "statsGet"])
                    /\ log' = Logged(Event("failJob", k.inst, k.job, k.cause))
            /\ UNCHANGED <<storage, orchestrator, browser, executor, crashed, otherBudget>>

HandleJobFailureReadStats ==
    \E k \in Waiting("handleJobFailure", "statsGet") :
        /\ Resume(k, [k EXCEPT !.pc = "statsSet", !.st = stats])
        /\ UNCHANGED <<storage, orchestrator, browser, executor, queue, log, crashed, budget>>

\* variant of lines 471-474 that leaves out processed++
countFailedOnly(st) == [st EXCEPT !.failed = @ + 1, !.currentJob = NoJob]
\* lines 471-474: processed++, failed++, delete currentJob
countFailed(st) ==
    [st EXCEPT !.processed = @ + 1, !.failed = @ + 1, !.currentJob = NoJob]

\* lines 471-476: processed++, failed++, delete currentJob, write back
HandleJobFailureWriteStats ==
    \E k \in Waiting("handleJobFailure", "statsSet") :
        /\ stats' = countFailed(k.st)
        /\ Resume(k, [k EXCEPT !.pc = "historyGet", !.st = InitialStats])
        /\ log' = Logged(Event("counted", k.inst, k.job, k.cause))
        /\ UNCHANGED <<isRunning, history, orchestrator, browser, executor, queue,
                       crashed, budget>>

HandleJobFailureReadHistory ==
    \E k \in Waiting("handleJobFailure", "historyGet") :
        /\ IF findIndex(history, k.job) = 0
           THEN Resume(k, [k EXCEPT !.pc = "close"])
           ELSE Resume(k, [k EXCEPT !.pc = "historySet", !.hs = history])
        /\ UNCHANGED <<storage, orchestrator, browser, executor, queue, log, crashed, budget>>

HandleJobFailureWriteHistory ==
    \E k \in Waiting("handleJobFailure", "historySet") :
        /\ history' = updateJobInHistory(k.hs, k.job, "failed")
        /\ Resume(k, [k EXCEPT !.pc = "close", !.hs = <<>>])
        /\ UNCHANGED <<isRunning, stats, orchestrator, browser, executor, queue, log,
                       crashed, budget>>

\* lines 481-491: with a tab id, drop the entry again and close the tab
HandleJobFailureCleanUp ==
    \E k \in Waiting("handleJobFailure", "close") :
        /\ IF k.tab # NoTab
           THEN /\ activeJobs' = [activeJobs EXCEPT ![k.tab] = NoJob]
                /\ tabsRemove(k.tab)
           ELSE UNCHANGED <<activeJobs, openTabs>>
        /\ Return(k)
        /\ log' = Logged(Event("returned", k.inst, k.job, k.cause))
        /\ UNCHANGED <<storage, jobTimeouts, tabClosureRetries, alarm, timers, nextTabId,
                       removed, executor, queue, crashed, budget>>

\* ---- the system ----
Control ==
    \/ StartPollingMessage
    \/ StartPollingHealth
    \/ StartPollingAlarm

Stopping ==
    \/ StopPollingMessage
    \/ StopPollingClear

Polling ==
    \/ PollCheckEnabled
    \/ PollFetch

Dispatch ==
    \/ ProcessJobReadStats
    \/ ProcessJobWriteStats
    \/ ProcessJobReadHistory
    \/ ProcessJobWriteHistory
    \/ ProcessJobCreateTab
    \/ ProcessJobWaitForTabLoad
    \/ ProcessJobWaitForContentScript
    \/ ProcessJobSendStart
    \/ \E t \in Tabs : TabLoads(t)
    \/ \E t \in Tabs : ContentScriptReady(t)

Crash ==
    \/ \E t \in Tabs : TabDestroyed(t)
    \/ \E t \in Tabs : OnRemoved(t)
    \/ OnRemovedRetry

Timeout == \E t \in Tabs : HandleJobTimeout(t)

Success ==
    \/ \E t \in Tabs : JobSuccessMessage(t)
    \/ HandleJobSuccessReport
    \/ HandleJobSuccessReadStats
    \/ HandleJobSuccessWriteStats
    \/ HandleJobSuccessReadHistory
    \/ HandleJobSuccessWriteHistory
    \/ HandleJobSuccessCleanUp

FailedMessage == \E t \in Tabs : JobFailedMessage(t)

Failure ==
    \/ HandleJobFailureReport
    \/ HandleJobFailureReadStats
    \/ HandleJobFailureWriteStats
    \/ HandleJobFailureReadHistory
    \/ HandleJobFailureWriteHistory
    \/ HandleJobFailureCleanUp

\* the whole worker
Next ==
    \/ Control \/ Stopping \/ AlarmFires \/ Polling \/ Dispatch \/ Crash \/ Timeout
    \/ Success \/ FailedMessage \/ Failure

Spec == Init /\ [][Next]_vars


\* ---- one dispatched job, from the poll that fetches it to its end ----
LifeTabs == 1       \* tabs the run may open
LifeSignals == 2    \* outcome messages the executor may deliver
LifeTicks == 1      \* firings of the poll alarm
LifeCrashes == 1    \* destructions of the executor tab
LifeFaults == 1     \* environment calls that fail

InitLifecycle ==
    InitWith(TRUE, OneJobQueued,
             [tabs |-> LifeTabs, signals |-> LifeSignals, ticks |-> LifeTicks,
              crashes |-> LifeCrashes, faults |-> LifeFaults])

NextLifecycle ==
    \/ AlarmFires \/ Polling \/ Dispatch \/ Crash \/ Timeout
    \/ Success \/ FailedMessage \/ Failure

SpecLifecycle == InitLifecycle /\ [][NextLifecycle]_vars

\* ---- a job whose executor tab keeps being destroyed ----
MoreTabs == 1       \* tabs the run may open after the ones Init has seen
MoreCrashes == 1    \* destructions after the ones Init has seen

\* The worker after the executor tab of job j1 was destroyed n times while
\* the job was executing (after START_JOB was acknowledged, before any outcome
\* message), each time below the retry ceiling, at the moment the onRemoved
\* listener has called processJob for instance n + 1 (n = 0: pollForJob has).
\* Every processJob so far wrote currentJob and unshifted one history record;
\* every onRemoved dropped the entry and the timer and counted one retry.
\* The event log and `crashed` start empty: they tell what this run does.
AfterCrashes(n) ==
    /\ isRunning = TRUE
    /\ alarm = TRUE
    /\ stats = [InitialStats EXCEPT !.currentJob = IF n = 0 THEN NoJob ELSE "j1"]
    /\ history = [i \in 1..n |-> [id |-> "j1", status |-> "processing"]]
    /\ activeJobs = [t \in 1..(n + MoreTabs) |-> NoJob]
    /\ jobTimeouts = {}
    /\ tabClosureRetries = IF n = 0 THEN <<>> ELSE MapSet(<<>>, "j1", n)
    /\ timers = {}
    /\ openTabs = {}
    /\ nextTabId = n + 1
    /\ removed = {}
    /\ exec = [t \in 1..(n + MoreTabs) |-> IF t <= n THEN "running" ELSE "loading"]
    /\ tabJob = [t \in 1..(n + MoreTabs) |-> IF t <= n THEN "j1" ELSE NoJob]
    /\ signals = [t \in 1..(n + MoreTabs) |-> 0]
    /\ queue = [j \in Jobs |-> IF j = "j1" THEN "processing" ELSE "completed"]
    /\ tasks = One(Task("processJob", "statsGet", "j1", NoTab, NoTab,
                        IF n = 0 THEN "poll" ELSE "retry"))
    /\ log = EmptyBag
    /\ crashed = [t \in 1..(n + MoreTabs) |-> -1]
    /\ starts = 0 /\ stops = 0 /\ ticks = 1 /\ crashes = n /\ faults = 0
    /\ LibraryIdle
    /\ limit = [tabs |-> n + MoreTabs, signals |-> 0, ticks |-> 1,
                crashes |-> n + MoreCrashes, faults |-> 0]

InitCrash == \E n \in 0..MAX_TAB_CLOSURE_RETRIES : AfterCrashes(n)

NextCrash == Dispatch \/ Crash \/ Timeout \/ Failure

SpecCrash == InitCrash /\ [][NextCrash]_vars

\* The same job, following only the code that writes tabClosureRetries: the
\* onRemoved listener, processJob with its catch block and the timeout, each
\* with the synchronous head of handleJobFailure (lines 437-449).  The rest
\* of handleJobFailure (failJob, stats, history) stays suspended.
NextRetry == Dispatch \/ Crash \/ Timeout

SpecRetry == InitCrash /\ [][NextRetry]_vars


\* ---- a job the backend hands out again after a reported failure ----
RefetchTabs == 2    \* tabs the run may open, the first instance's included
RefetchTicks == 2   \* firings of the poll alarm, the first one included

\* The worker after the first instance of job j1 (tab 1) never finished
\* loading: waitForTabLoad threw after its last attempt, the catch block of
\* processJob ran handleJobFailure(null, ...) to its end and the backend
\* answered willRetry.  Tab 1 is still open, registered and timed.
AfterDeliveryFailure ==
    /\ isRunning = TRUE
    /\ alarm = TRUE
    /\ stats = [processed |-> 1, succeeded |-> 0, failed |-> 1, currentJob |-> NoJob]
    /\ history = <<[id |-> "j1", status |-> "failed"]>>
    /\ activeJobs = [t \in 1..RefetchTabs |-> IF t = 1 THEN "j1" ELSE NoJob]
    /\ jobTimeouts = {1}
    /\ tabClosureRetries = <<>>
    /\ timers = {1}
    /\ openTabs = {1}
    /\ nextTabId = 2
    /\ removed = {}
    /\ exec = [t \in 1..RefetchTabs |-> "loading"]
    /\ tabJob = [t \in 1..RefetchTabs |-> IF t = 1 THEN "j1" ELSE NoJob]
    /\ signals = [t \in 1..RefetchTabs |-> 0]
    /\ queue = OneJobQueued
    /\ tasks = EmptyBag
    /\ log = SetToBag({Event("deliveryFailure", 1, "j1", "delivery"),
                       Event("failJob", 1, "j1", "delivery"),
                       Event("counted", 1, "j1", "delivery"),
                       Event("returned", 1, "j1", "delivery")})
    /\ crashed = [t \in 1..RefetchTabs |-> -1]
    /\ starts = 0 /\ stops = 0 /\ ticks = 1 /\ crashes = 0 /\ faults = 0
    /\ LibraryIdle
    /\ limit = [tabs |-> RefetchTabs, signals |-> 0, ticks |-> RefetchTicks,
                crashes |-> 0, faults |-> 0]

NextRefetch == AlarmFires \/ Polling \/ Dispatch \/ Timeout \/ Failure

SpecRefetch == AfterDeliveryFailure /\ [][NextRefetch]_vars


\* ---- one executing job: its outcome messages against its timeout ----
ExecSignals == 2    \* outcome messages the executor may deliver
ExecFaults == 1     \* backend calls that throw

\* The worker after pollForJob fetched job j1 and processJob ran to its end:
\* currentJob written, one history record unshifted, tab 1 created,
\* registered and timed, the handshake done and START_JOB acknowledged.
AfterAcknowledged ==
    /\ isRunning = TRUE
    /\ alarm = TRUE
    /\ stats = [InitialStats EXCEPT !.currentJob = "j1"]
    /\ history = <<[id |-> "j1", status |-> "processing"]>>
    /\ activeJobs = [t \in {1} |-> "j1"]
    /\ jobTimeouts = {1}
    /\ tabClosureRetries = <<>>
    /\ timers = {1}
    /\ openTabs = {1}
    /\ nextTabId = 2
    /\ removed = {}
    /\ exec = [t \in {1} |-> "running"]
    /\ tabJob = [t \in {1} |-> "j1"]
    /\ signals = [t \in {1} |-> 0]
    /\ queue = [j \in Jobs |-> IF j = "j1" THEN "processing" ELSE "completed"]
    /\ tasks = EmptyBag
    /\ log = EmptyBag
    /\ crashed = [t \in {1} |-> -1]
    /\ starts = 0 /\ stops = 0 /\ ticks = 1 /\ crashes = 0 /\ faults = 0
    /\ LibraryIdle
    /\ limit = [tabs |-> 1, signals |-> ExecSignals, ticks |-> 1,
                crashes |-> 0, faults |-> ExecFaults]

NextExecuting == Timeout \/ Success \/ FailedMessage \/ Failure

SpecExecuting == AfterAcknowledged /\ [][NextExecuting]_vars

\* the same run when the browser fires every armed timer and resumes every
\* suspended handler: a JOB_TIMEOUT timer that stays pending fires, a handler
\* whose awaited call has settled goes on.  Outcome messages are up to the
\* executor: nothing makes it send one.
ExecTabs == {1}
SuccessSteps ==
    \/ HandleJobSuccessReport
    \/ HandleJobSuccessReadStats
    \/ HandleJobSuccessWriteStats
    \/ HandleJobSuccessReadHistory
    \/ HandleJobSuccessWriteHistory
    \/ HandleJobSuccessCleanUp
FairExecuting ==
    /\ \A t \in ExecTabs : WF_vars(HandleJobTimeout(t))
    /\ WF_vars(SuccessSteps)
    /\ WF_vars(Failure)
SpecExecutingFair == SpecExecuting /\ FairExecuting


\* ---- two jobs in flight: one executing while the next one is dispatched ----
OverlapSignals == 1  \* outcome messages one executor may deliver

\* The worker after pollForJob fetched job j1 out of a queue holding j1 and
\* j2 and processJob ran to its end (as in AfterAcknowledged), and the next
\* firing of the poll alarm fetched j2: j1 executes in tab 1, pollForJob has
\* called processJob for j2.
AfterSecondFetched ==
    /\ isRunning = TRUE
    /\ alarm = TRUE
    /\ stats = [InitialStats EXCEPT !.currentJob = "j1"]
    /\ history = <<[id |-> "j1", status |-> "processing"]>>
    /\ activeJobs = [t \in {1, 2} |-> IF t = 1 THEN "j1" ELSE NoJob]
    /\ jobTimeouts = {1}
    /\ tabClosureRetries = <<>>
    /\ timers = {1}
    /\ openTabs = {1}
    /\ nextTabId = 2
    /\ removed = {}
    /\ exec = [t \in {1, 2} |-> IF t = 1 THEN "running" ELSE "loading"]
    /\ tabJob = [t \in {1, 2} |-> IF t = 1 THEN "j1" ELSE NoJob]
    /\ signals = [t \in {1, 2} |-> 0]
    /\ queue = [j \in Jobs |-> "processing"]
    /\ tasks = One(Task("processJob", "statsGet", "j2", NoTab, NoTab, "poll"))
    /\ log = EmptyBag
    /\ crashed = [t \in {1, 2} |-> -1]
    /\ starts = 0 /\ stops = 0 /\ ticks = 2 /\ crashes = 0 /\ faults = 0
    /\ LibraryIdle
    /\ limit = [tabs |-> 2, signals |-> OverlapSignals, ticks |-> 2,
                crashes |-> 0, faults |-> 0]

\* the handlers of the two jobs, before either job's JOB_TIMEOUT has elapsed:
\* each executor reports success, or the second job's delivery fails
NextOverlap == Dispatch \/ Success \/ Failure

SpecOverlap == AfterSecondFetched /\ [][NextOverlap]_vars


\* ---- the history list: one handler reading and writing it ----

\* A stored history of n records, newest first; the record of age a (a = 0:
\* the oldest, at the end of the list) belongs to one of the two jobs by a
\* pattern p (1, 2: alternating; 3: all of j2) and is completed, failed or
\* still processing.
PastRecord(a, p) ==
    [id |-> IF p = 3 THEN "j2"
            ELSE IF (a % 2 = 0) = (p = 1) THEN "j1" ELSE "j2",
     status |-> IF a % 3 = 0 THEN "completed"
                ELSE IF a % 3 = 1 THEN "failed" ELSE "processing"]
PastHistory(n, p) == [i \in 1..n |-> PastRecord(n - i, p)]
Patterns == {1, 2, 3}

\* the stats that go with a history when no update was lost
StatsOf(h, cur) ==
    LET done == Cardinality({i \in 1..Len(h) : h[i].status = "completed"})
        lost == Cardinality({i \in 1..Len(h) : h[i].status = "failed"})
    IN  [processed |-> done + lost, succeeded |-> done, failed |-> lost,
         currentJob |-> cur]

\* The worker with a history of up to 50 records at the moment a handler
\* working for j1 is about to read the list: processJob at addJobToHistory
\* (line 273, no tab yet), or handleJobSuccess (line 409) or handleJobFailure
\* (line 479) at updateJobInHistory for the job of tab 1.
HistoryHandlers == {"processJob", "handleJobSuccess", "handleJobFailure"}
BeforeHistoryAccess(n, p, kind) ==
    /\ isRunning = TRUE
    /\ alarm = TRUE
    /\ stats = StatsOf(PastHistory(n, p), IF kind = "processJob" THEN "j1" ELSE NoJob)
    /\ history = PastHistory(n, p)
    /\ activeJobs = [t \in {1} |-> IF kind = "handleJobSuccess" THEN "j1" ELSE NoJob]
    /\ jobTimeouts = {}
    /\ tabClosureRetries = <<>>
    /\ timers = {}
    /\ openTabs = IF kind = "processJob" THEN {} ELSE {1}
    /\ nextTabId = IF kind = "processJob" THEN 1 ELSE 2
    /\ removed = {}
    /\ exec = [t \in {1} |-> IF kind = "processJob" THEN "loading" ELSE "running"]
    /\ tabJob = [t \in {1} |-> IF kind = "processJob" THEN NoJob ELSE "j1"]
    /\ signals = [t \in {1} |-> IF kind = "processJob" THEN 0 ELSE 1]
    /\ queue = [j \in Jobs |-> IF j = "j2" THEN "completed"
                                ELSE IF kind = "processJob" THEN "processing"
                                ELSE IF kind = "handleJobSuccess" THEN "completed"
                                ELSE "failed"]
    /\ tasks = One(IF kind = "processJob"
                   THEN Task("processJob", "historyGet", "j1", NoTab, NoTab, "poll")
                   ELSE Task(kind, "historyGet", "j1", 1, 1, "signal"))
    /\ log = EmptyBag
    /\ crashed = [t \in {1} |-> -1]
    /\ starts = 0 /\ stops = 0 /\ ticks = 1 /\ crashes = 0 /\ faults = 0
    /\ LibraryIdle
    /\ limit = [tabs |-> 1, signals |-> 1, ticks |-> 1, crashes |-> 0, faults |-> 0]

InitHistory ==
    \E n \in 0..HISTORY_LIMIT : \E p \in Patterns : \E kind \in HistoryHandlers :
        BeforeHistoryAccess(n, p, kind)

NextHistory ==
    \/ ProcessJobReadHistory
    \/ ProcessJobWriteHistory
    \/ HandleJobSuccessReadHistory
    \/ HandleJobSuccessWriteHistory
    \/ HandleJobFailureReadHistory
    \/ HandleJobFailureWriteHistory

SpecHistory == InitHistory /\ [][NextHistory]_vars


\* ---- one poll and the one job it dispatches, without crashes or failing calls ----
SoundSignals == 1    \* outcome messages the executor may deliver

\* polling is on and one job is queued; the run is that of the first firing
\* of the poll alarm and of the tab opened for its job: no tab is destroyed
\* from outside and every backend and browser call answers
InitSound ==
    InitWith(TRUE, OneJobQueued,
             [tabs |-> 1, signals |-> SoundSignals, ticks |-> 1,
              crashes |-> 0, faults |-> 0])

NextSound == AlarmFires \/ Polling \/ Dispatch \/ Timeout \/ Success \/ Failure

SpecSound == InitSound /\ [][NextSound]_vars

\* the same run when every await of processJob settles (the 500 ms timers
\* fire, chrome.tabs.get and chrome.tabs.sendMessage answer or reject).  The
\* page and its content script are free never to load or never to answer.
SoundTabs == {1}
FairSound ==
    /\ WF_vars(ProcessJobWaitForTabLoad)
    /\ WF_vars(ProcessJobWaitForContentScript)
    /\ WF_vars(ProcessJobSendStart)
SpecSoundFair == SpecSound /\ FairSound


\* ---- one poll and the delivery of its job to the executor tab ----
DeliveryFaults == 1  \* calls that fail: tabs.create, START_JOB not acknowledged, failJob

\* polling is on and one job is queued; the run is that of the first firing
\* of the poll alarm, up to the acknowledgment of START_JOB or to the failure
\* of the delivery, with the JOB_TIMEOUT of the tab firing at any moment
InitDelivery ==
    InitWith(TRUE, OneJobQueued,
             [tabs |-> 1, signals |-> 0, ticks |-> 1,
              crashes |-> 0, faults |-> DeliveryFaults])

NextDelivery == AlarmFires \/ Polling \/ Dispatch \/ Timeout \/ Failure

SpecDelivery == InitDelivery /\ [][NextDelivery]_vars


\* ---- STOP_POLLING against a poll tick and the job it dispatches ----

\* polling is on and one job is queued; the poll alarm fires once, STOP_POLLING
\* arrives at any moment, and the executor tab may be destroyed once (the
\* onRemoved listener then re-dispatches into a second tab)
InitStop ==
    InitWith(TRUE, OneJobQueued,
             [tabs |-> 2, signals |-> 0, ticks |-> 1, crashes |-> 1, faults |-> 0])

NextStop == Stopping \/ AlarmFires \/ Polling \/ Dispatch \/ Crash

SpecStop == InitStop /\ [][NextStop]_vars


\* ---- a job that executes again after a crash of its first executor tab ----
RetriedSignals == 1  \* outcome messages the second executor may deliver
RetriedFaults == 1   \* backend calls that throw

\* The worker after AfterCrashes(1) ran on without a further crash: the
\* executor tab of j1 (tab 1) was destroyed once while the job was executing,
\* the onRemoved listener counted one local retry and called processJob
\* again, and that processJob ran to its end: a second history record, tab 2
\* created, registered and timed, START_JOB acknowledged.
AfterRetryAcknowledged ==
    /\ isRunning = TRUE
    /\ alarm = TRUE
    /\ stats = [InitialStats EXCEPT !.currentJob = "j1"]
    /\ history = <<[id |-> "j1", status |-> "processing"],
                   [id |-> "j1", status |-> "processing"]>>
    /\ activeJobs = [t \in {1, 2} |-> IF t = 2 THEN "j1" ELSE NoJob]
    /\ jobTimeouts = {2}
    /\ tabClosureRetries = MapSet(<<>>, "j1", 1)
    /\ timers = {2}
    /\ openTabs = {2}
    /\ nextTabId = 3
    /\ removed = {}
    /\ exec = [t \in {1, 2} |-> "running"]
    /\ tabJob = [t \in {1, 2} |-> "j1"]
    /\ signals = [t \in {1, 2} |-> 0]
    /\ queue = [j \in Jobs |-> IF j = "j1" THEN "processing" ELSE "completed"]
    /\ tasks = EmptyBag
    /\ log = One(Event("redispatch", 1, "j1", "crash"))
    /\ crashed = [t \in {1, 2} |-> IF t = 1 THEN 0 ELSE -1]
    /\ starts = 0 /\ stops = 0 /\ ticks = 1 /\ crashes = 1 /\ faults = 0
    /\ LibraryIdle
    /\ limit = [tabs |-> 2, signals |-> RetriedSignals, ticks |-> 1,
                crashes |-> 1, faults |-> RetriedFaults]

NextRetried == Timeout \/ Success \/ FailedMessage \/ Failure

SpecRetried == AfterRetryAcknowledged /\ [][NextRetried]_vars


\* ---- a job whose first executor tab is destroyed during the handshake ----

\* The worker after the executor tab of job j1 was destroyed n times (n >= 1)
\* since the poll fetched the job, at the moment the onRemoved listener has
\* called processJob for instance n + 1.  Tab 1 was destroyed while processJob
\* was in waitForTabLoad: onRemoved counted one retry, then chrome.tabs.get
\* rejected and the catch block of processJob ran handleJobFailure(null, ...)
\* to its end (counter deleted, failJob answered without retry, stats and the
\* history record updated).  The tabs after it were destroyed while the job
\* was executing, as in AfterCrashes.  The event log holds what happened.
AfterCounterReset(n) ==
    /\ isRunning = TRUE
    /\ alarm = TRUE
    /\ stats = [processed |-> 1, succeeded |-> 0, failed |-> 1,
                currentJob |-> IF n = 1 THEN NoJob ELSE "j1"]
    /\ history = [i \in 1..n |-> [id |-> "j1",
                                  status |-> IF i = n THEN "failed" ELSE "processing"]]
    /\ activeJobs = [t \in 1..(n + MoreTabs) |-> NoJob]
    /\ jobTimeouts = {}
    /\ tabClosureRetries = IF n = 1 THEN <<>> ELSE MapSet(<<>>, "j1", n - 1)
    /\ timers = {}
    /\ openTabs = {}
    /\ nextTabId = n + 1
    /\ removed = {}
    /\ exec = [t \in 1..(n + MoreTabs) |-> IF 1 < t /\ t <= n THEN "running" ELSE "loading"]
    /\ tabJob = [t \in 1..(n + MoreTabs) |-> IF t <= n THEN "j1" ELSE NoJob]
    /\ signals = [t \in 1..(n + MoreTabs) |-> 0]
    /\ queue = [j \in Jobs |-> IF j = "j1" THEN "failed" ELSE "completed"]
    /\ tasks = One(Task("processJob", "statsGet", "j1", NoTab, NoTab, "retry"))
    /\ log = SetToBag({Event("deliveryFailure", 1, "j1", "delivery"),
                       Event("failJob", 1, "j1", "delivery"),
                       Event("counted", 1, "j1", "delivery"),
                       Event("returned", 1, "j1", "delivery")}
                      \cup {Event("redispatch", t, "j1", "crash") : t \in 1..n})
    /\ crashed = [t \in 1..(n + MoreTabs) |->
                     IF t = 1 THEN 0 ELSE IF t <= n THEN t - 2 ELSE -1]
    /\ starts = 0 /\ stops = 0 /\ ticks = 1 /\ crashes = n /\ faults = 0
    /\ LibraryIdle
    /\ limit = [tabs |-> n + MoreTabs, signals |-> 0, ticks |-> 1,
                crashes |-> n + MoreCrashes, faults |-> 0]

InitReset == \E n \in 1..MAX_TAB_CLOSURE_RETRIES : AfterCounterReset(n)

NextReset == Dispatch \/ Crash \/ Failure

SpecReset == InitReset /\ [][NextReset]_vars


\* ---- what the event log says about one job instance (the tab it ran in) ----
EventsBy(ev, inst, causes) ==
    Count({e \in DOMAIN log : e.ev = ev /\ e.inst = inst /\ e.cause \in causes})
ReportsBy(inst, causes) ==
    EventsBy("completeJob", inst, causes) + EventsBy("failJob", inst, causes)
AllCauses == {"signal", "timeout", "delivery", "crash", "success"}
Reports(inst) == ReportsBy(inst, AllCauses)
Counted(inst) == EventsBy("counted", inst, AllCauses)
Redispatches(inst) == EventsBy("redispatch", inst, AllCauses)
\* onRemoved found the tab's entry and no outcome message had come from the tab
CrashedSilently(t) == crashed[t] >= 0 /\ signals[t] = 0

\* C1: the outcome messages handled for one tab lead to at most one backend
\* report (completeJob or failJob) and at most one increment of processed,
\* however many messages there are: a second message is a no-op.
C1_FinalizeIdempotent ==
    \A t \in Tabs :
        /\ ReportsBy(t, {"signal"}) <= 1
        /\ EventsBy("counted", t, {"signal"}) <= 1

\* C2: for a tab that delivers at most one outcome message and whose timeout
\* may fire at any moment, the job instance is never reported both completed
\* and failed, is reported at most once, and processed is incremented at most once.
C2_TimeoutRaceSingleReport ==
    \A t \in Tabs :
        signals[t] <= 1 =>
            /\ ~(EventsBy("completeJob", t, {"signal", "timeout"}) >= 1
                 /\ EventsBy("failJob", t, {"signal", "timeout"}) >= 1)
            /\ ReportsBy(t, {"signal", "timeout"}) <= 1
            /\ EventsBy("counted", t, {"signal", "timeout"}) <= 1

\* C3: an executor tab destroyed without an outcome while the job's retry
\* counter is below MAX_TAB_CLOSURE_RETRIES leads to at most one re-dispatch,
\* to no backend report for that instance and to no stats increment.
C3_CrashBelowCeilingRetriesLocally ==
    \A t \in Tabs :
        (CrashedSilently(t) /\ crashed[t] < MAX_TAB_CLOSURE_RETRIES) =>
            /\ Redispatches(t) <= 1
            /\ Reports(t) = 0
            /\ Counted(t) = 0

\* C4: an executor tab destroyed without an outcome while the job's retry
\* counter is at MAX_TAB_CLOSURE_RETRIES leads to at most one failJob call for
\* that instance, to no re-dispatch, and the job's counter is deleted.
C4_CrashAtCeilingReportsOnce ==
    \A t \in Tabs :
        (CrashedSilently(t) /\ crashed[t] >= MAX_TAB_CLOSURE_RETRIES) =>
            /\ EventsBy("failJob", t, AllCauses) <= 1
            /\ Redispatches(t) = 0
            /\ tabJob[t] \notin DOMAIN tabClosureRetries

\* C5: with the ceiling at 3, of the crashes of one job while it executes the
\* first two are re-dispatched locally without a failJob call and the third
\* is not re-dispatched (it is the one reported to the backend).
C5_ThirdCrashIsReported ==
    \A t \in Tabs :
        (CrashedSilently(t) /\ exec[t] = "running") =>
            /\ crashed[t] < 2 => EventsBy("failJob", t, AllCauses) = 0
            /\ crashed[t] = 2 => Redispatches(t) = 0

\* handleJobSuccess ran to its end for tab t (lines 411-417 done)
SuccessFinalized(t) == EventsBy("returned", t, {"success"}) >= 1

\* C6: once a success message has finalized a tab's job, handleJobTimeout for
\* that tab finds no active entry (it returns at its first check: no backend
\* call, no change of stats or history), and no timer of the tab is pending.
C6_TimeoutAfterSuccessIsNoOp ==
    \A t \in Tabs : SuccessFinalized(t) => timeoutFindsNoEntry(t) /\ t \notin timers

\* C6 witness: a success message has finalized a tab whose timeout had been
\* armed, and the backend holds the job as completed.
C6_Witness ==
    \E t \in Tabs : SuccessFinalized(t) /\ queue[tabJob[t]] = "completed"
                     /\ stats.succeeded = 1

\* C7: no two entries of activeJobs hold the same job id.
C7_OneEntryPerJobId ==
    \A t1, t2 \in Tabs :
        (t1 # t2 /\ activeJobs[t1] # NoJob) => activeJobs[t1] # activeJobs[t2]

\* processJob took its catch block for the instance of tab t, in a run in
\* which no tab was destroyed from outside
DeliveryFailed(t) == EventsBy("deliveryFailure", t, AllCauses) >= 1 /\ crashes = 0

\* C8: an instance whose START_JOB was not acknowledged (or whose handshake
\* ran out) is failed exactly once over its lifetime: at most one failJob call
\* and one stats increment, the armed timeout included, and the job's local
\* retry counter is not incremented.
C8_DeliveryFailureFailsOnce ==
    \A t \in Tabs :
        DeliveryFailed(t) =>
            /\ EventsBy("failJob", t, AllCauses) <= 1
            /\ Counted(t) <= 1
            /\ MapGet(tabClosureRetries, tabJob[t]) = 0

\* a finalizing handler working for the instance of tab t ran to its end,
\* and no onRemoved event of the tab is still to be delivered
Finalized(t) == EventsBy("returned", t, AllCauses) >= 1 /\ t \notin removed

\* C9: after a terminal transition of an instance, once the finalizing
\* handler has returned, the instance's tab is closed and neither activeJobs
\* nor jobTimeouts holds an entry for it.
C9_TabReleasedOnFinalize ==
    \A t \in Tabs :
        Finalized(t) =>
            /\ t \notin openTabs
            /\ activeJobs[t] = NoJob
            /\ t \notin jobTimeouts

\* C10: when the backend report of a finalization throws, the handler has
\* returned with the instance's entry removed from activeJobs (once no
\* onRemoved event of the tab is still to be delivered), and no handler
\* repeats its report (one call per outcome message, timeout, delivery
\* failure or crash exhaustion).
C10_ReportFailureStillRemovesEntry ==
    \A t \in Tabs :
        (EventsBy("reportThrew", t, AllCauses) >= 1 /\ t \notin removed) =>
            /\ activeJobs[t] = NoJob
            /\ ReportsBy(t, {"signal"}) <= signals[t]
            /\ ReportsBy(t, {"timeout"}) <= 1
            /\ ReportsBy(t, {"delivery"}) <= 1
            /\ ReportsBy(t, {"crash"}) <= 1

\* the finalizing handlers suspended at an await on behalf of the instance of tab t
Finalizing(t) ==
    {k \in DOMAIN tasks : k.kind \in {"handleJobSuccess", "handleJobFailure"} /\ k.inst = t}

\* C11: while a finalizing handler (handleJobSuccess or handleJobFailure) is
\* suspended on its backend report or on storage, activeJobs holds no entry
\* for the tab of the instance it finalizes, so that a timeout, a tab removal
\* or a second outcome message for that tab finds no entry.
C11_EntryRemovedBeforeAwait ==
    \A t \in Tabs : Finalizing(t) # {} => activeJobs[t] = NoJob

\* the handleJobFailure started by the timeout of tab t is over: it ran to
\* its end or left through its catch block
TimeoutHandled(t) ==
    \/ EventsBy("returned", t, {"timeout"}) >= 1
    \/ EventsBy("reportThrew", t, {"timeout"}) >= 1

\* C12: when the timeout of a tab found the tab's entry, no outcome message
\* came from the tab and the handler is over, the timeout made exactly one
\* failJob call, the entry and the timer of the tab are gone and the tab is closed.
C12_TimeoutFailsAndClosesTab ==
    \A t \in Tabs :
        (TimeoutHandled(t) /\ signals[t] = 0 /\ crashes = 0) =>
            /\ EventsBy("failJob", t, {"timeout"}) = 1
            /\ activeJobs[t] = NoJob
            /\ t \notin jobTimeouts
            /\ t \notin timers
            /\ t \notin openTabs

\* C13: the stored stats record has processed = succeeded + failed in every
\* state, whatever the interleaving of the read-modify-write sequences of
\* processJob, handleJobSuccess and handleJobFailure.
C13_ProcessedIsSucceededPlusFailed ==
    stats.processed = stats.succeeded + stats.failed

\* C13 witness: two finalizations were counted by handlers that read the
\* same record, so that the second write replaced the first, one of them a
\* success and one a failure.
C13_Witness ==
    /\ Count({e \in DOMAIN log : e.ev = "counted"}) = 2
    /\ Count({e \in DOMAIN log : e.ev = "counted" /\ e.cause = "delivery"}) = 1
    /\ stats.processed = 1

\* C14: no write of the stats record stores a value of processed, succeeded
\* or failed that is lower than the value stored before.
C14_CountersMonotonic ==
    [][/\ stats'.processed >= stats.processed
       /\ stats'.succeeded >= stats.succeeded
       /\ stats'.failed >= stats.failed]_vars

\* the jobs the backend has handed out and has no report for
MidFlight == {j \in Jobs : queue[j] = "processing"}

\* C15: whenever no handler is in progress, stats.currentJob is present
\* exactly when one single job is mid-flight (handed out, not yet finalized).
C15_CurrentJobIffOneMidFlight ==
    tasks = EmptyBag =>
        ((stats.currentJob # NoJob) <=> (Cardinality(MidFlight) = 1))

\* C16: the history list never holds two records with the same job id (a
\* job re-dispatched after a crash of its executor keeps its one record).
C16_OneHistoryRecordPerJob ==
    \A i, j \in 1..Len(history) : i # j => history[i].id # history[j].id

\* processJob k is between the read and the write of addJobToHistory
Appending == Waiting("processJob", "historySet")
\* the step is the write of addJobToHistory by processJob k
AppendStep(k) ==
    /\ k \in Appending
    /\ tasks' = (tasks (-) One(k)) (+) One([k EXCEPT !.pc = "create", !.hs = <<>>])
\* a finalizing handler is in updateJobInHistory, before its read or its write
Updating ==
    {k \in DOMAIN tasks : /\ k.kind \in {"handleJobSuccess", "handleJobFailure"}
                          /\ k.pc \in {"historyGet", "historySet"}}
\* the list handler k has in hand: the stored one before its read, its copy after
InHand(k) == IF k.pc = "historyGet" THEN history ELSE k.hs
\* the step is the one by which handler k leaves updateJobInHistory
UpdateStep(k) ==
    /\ k \in Updating
    /\ k.pc = "historyGet" => findIndex(history, k.job) = 0
    /\ tasks' = (tasks (-) One(k)) (+) One([k EXCEPT !.pc = "close", !.hs = <<>>])

\* C17: the history list never holds more than 50 records, and an append
\* stores the list it read with the new record put first, the other records
\* in their order behind it and, when the list was full, without its last
\* (oldest) record.
C17_HistoryBoundedNewestFirst ==
    /\ [](Len(history) <= HISTORY_LIMIT)
    /\ [][\A k \in DOMAIN tasks :
             AppendStep(k) =>
                 /\ history'[1] = [id |-> k.job, status |-> "processing"]
                 /\ Len(history') = IF Len(k.hs) < HISTORY_LIMIT
                                    THEN Len(k.hs) + 1 ELSE HISTORY_LIMIT
                 /\ \A i \in 2..Len(history') : history'[i] = k.hs[i - 1]]_<<history, tasks>>

\* C17 witness: an append to a full list has happened: the list holds 50
\* records, the new one first, and the record that was the oldest but one
\* is now the last.
C17_Witness ==
    /\ Waiting("processJob", "create") # {}
    /\ Len(history) = HISTORY_LIMIT
    /\ history[1] = [id |-> "j1", status |-> "processing"]
    /\ history[HISTORY_LIMIT] = PastRecord(1, 1)
    /\ history[2] = PastRecord(HISTORY_LIMIT - 1, 1)

\* C18: updateJobInHistory stores the list it read with the length and the
\* id of every record kept and at most one record changed, a record of the
\* handler's job, in its status only; when the list has no record of the
\* job, nothing is stored and the list stays as it is.
C18_UpdateChangesOneRecord ==
    [][\A k \in DOMAIN tasks :
          UpdateStep(k) =>
              /\ Len(history') = Len(InHand(k))
              /\ \A i \in 1..Len(history') :
                     /\ history'[i].id = InHand(k)[i].id
                     /\ history'[i] # InHand(k)[i] => InHand(k)[i].id = k.job
              /\ Cardinality({i \in 1..Len(history') : history'[i] # InHand(k)[i]}) <= 1
              /\ findIndex(InHand(k), k.job) = 0 => history' = history]_<<history, tasks>>

\* C18 witness: handleJobFailure has updated a list of three records, two
\* of them of its job: the first one is now failed, the older one is as it was.
C18_Witness ==
    /\ Waiting("handleJobFailure", "close") # {}
    /\ history = <<[id |-> "j1", status |-> "failed"],
                   [id |-> "j2", status |-> "failed"],
                   [id |-> "j1", status |-> "completed"]>>

\* the run of the instance of tab t was: dispatched, acknowledged, one
\* JOB_SUCCESS message handled to its end with completeJob answering, and
\* nothing else (no other message, no timeout, no crash, no failure report,
\* no handler still in progress)
SuccessOnly(t) ==
    /\ SuccessFinalized(t)
    /\ signals[t] = 1
    /\ crashed[t] = -1 /\ crashes = 0
    /\ EventsBy("failJob", t, AllCauses) = 0
    /\ EventsBy("reportThrew", t, AllCauses) = 0
    /\ tasks = EmptyBag
    /\ nextTabId = 2

\* C19: after a single job was dispatched, acknowledged and reported
\* successful with nothing else happening, processed and succeeded are 1,
\* failed is 0, the job's history record is completed, completeJob was
\* called once, and the tab has no entry, no timer and no retry counter.
C19_SuccessScenario ==
    \A t \in Tabs :
        SuccessOnly(t) =>
            /\ stats = [processed |-> 1, succeeded |-> 1, failed |-> 0, currentJob |-> NoJob]
            /\ history = <<[id |-> tabJob[t], status |-> "completed"]>>
            /\ EventsBy("completeJob", t, AllCauses) = 1
            /\ queue[tabJob[t]] = "completed"
            /\ activeJobs[t] = NoJob
            /\ t \notin jobTimeouts
            /\ t \notin timers
            /\ tabJob[t] \notin DOMAIN tabClosureRetries
            /\ t \notin openTabs

\* C19 witness: such a run has happened for job j1 in tab 1.
C19_Witness == SuccessOnly(1) /\ tabJob[1] = "j1" /\ ticks = 1

TerminalOver(t) ==
    \/ EventsBy("returned", t, AllCauses) >= 1
    \/ EventsBy("reportThrew", t, AllCauses) >= 1

\* C21: once a terminal transition of a job instance is over (the success
\* message handled, or the failure reported), the job has no local retry
\* counter, also when the backend report of that finalization threw.
C21_NoRetryCounterAfterTerminal ==
    \A t \in Tabs : TerminalOver(t) => tabJob[t] \notin DOMAIN tabClosureRetries

\* the local re-dispatches (processJob called by the onRemoved listener) of job j
Redispatched(j) == Count({e \in DOMAIN log : e.ev = "redispatch" /\ e.job = j})

\* C22: in a run with one poll tick, the onRemoved listener re-dispatches a
\* job at most MAX_TAB_CLOSURE_RETRIES times, whether its executor tabs were
\* destroyed during the handshake or while the job was executing.
C22_RedispatchesBounded ==
    ticks <= 1 => \A j \in Jobs : Redispatched(j) <= MAX_TAB_CLOSURE_RETRIES

\* the failJob calls made for job j
FailReported(j) == Count({e \in DOMAIN log : e.ev = "failJob" /\ e.job = j})

\* C23: in a run with one poll tick, the onRemoved listener never calls
\* processJob for a job that has been reported failed to the backend
\* (failJob called), whatever the backend's willRetry answer was.
C23_NoRedispatchAfterFailJob ==
    [][\A j \in Jobs :
          (ticks <= 1 /\ Redispatched(j)' > Redispatched(j)) => FailReported(j) = 0]_vars

\* C24: with timers that fire and handlers that are resumed, every entry of
\* activeJobs is eventually removed, whether the backend report calls answer
\* or throw.
C24_ActiveJobEventuallyLeaves ==
    \A t \in ExecTabs : (activeJobs[t] # NoJob) ~> (activeJobs[t] = NoJob)

\* the processJob handlers that are working with tab t
Dispatching(t) == {k \in DOMAIN tasks : k.kind = "processJob" /\ k.tab = t}
\* processJob k is about to send START_JOB
AboutToStart(k) == k.kind = "processJob" /\ k.pc = "start"

\* C25: a processJob comes to send START_JOB to a tab only by a PING to that
\* tab answered ready = true, and START_JOB is acknowledged only to a
\* processJob that came so far; a processJob whose last PING is not answered
\* ready leaves through its catch block, and after that no processJob works
\* with the tab, so START_JOB is never sent for the instance.
C25_StartOnlyAfterPingReady ==
    /\ [][\A t \in Tabs :
             /\ (\E k2 \in Dispatching(t)' : AboutToStart(k2) /\ k2 \notin DOMAIN tasks)
                    => /\ \E k \in Dispatching(t) : k.pc = "ping"
                       /\ t \in openTabs /\ exec[t] \in {"ready", "running"}
             /\ (exec[t] # "running" /\ exec'[t] = "running")
                    => \E k \in Dispatching(t) : AboutToStart(k)
             /\ (\E k \in Dispatching(t) :
                     /\ k.pc = "ping" /\ k.att = PING_ATTEMPTS
                     /\ exec[t] \notin {"ready", "running"}
                     /\ k \notin DOMAIN tasks')
                    => /\ Dispatching(t)' = {}
                       /\ EventsBy("deliveryFailure", t, AllCauses)' = 1]_vars
    /\ [](\A t \in Tabs :
             EventsBy("deliveryFailure", t, AllCauses) >= 1 => Dispatching(t) = {})

\* C25 witness: START_JOB was sent to a tab and acknowledged, after a PING
\* answered ready; the job executes.
C25_Witness ==
    \E t \in Tabs :
        /\ exec[t] = "running" /\ t \in openTabs /\ activeJobs[t] = tabJob[t]
        /\ Dispatching(t) = {} /\ signals[t] = 0
        /\ EventsBy("deliveryFailure", t, AllCauses) = 0

\* the handleJobFailure(null, ...) calls in progress for job j
FailingWithoutTab(j) ==
    {k \in DOMAIN tasks : k.kind = "handleJobFailure" /\ k.tab = NoTab /\ k.job = j}

\* C26: one processJob at most works with a tab, and the step by which it
\* sends START_JOB ends its work with the tab (no second send).  When the
\* send is answered received = true the executor runs the job and processJob
\* returns without a failure; when the send rejects or is answered anything
\* else, processJob goes to its catch block: handleJobFailure(null, ...) is
\* called and the executor was not started.
C26_StartSentOnceAndAcknowledged ==
    /\ [][\A t \in Tabs : \A k \in Dispatching(t) :
             (AboutToStart(k) /\ k \notin DOMAIN tasks') =>
                 /\ Dispatching(t)' = {}
                 /\ (t \in openTabs /\ faults' = faults) =>
                        /\ exec'[t] = "running"
                        /\ EventsBy("deliveryFailure", t, AllCauses)' =
                               EventsBy("deliveryFailure", t, AllCauses)
                        /\ FailingWithoutTab(k.job)' = FailingWithoutTab(k.job)
                 /\ (t \notin openTabs \/ faults' # faults) =>
                        /\ exec' = exec
                        /\ EventsBy("deliveryFailure", t, AllCauses)' =
                               EventsBy("deliveryFailure", t, AllCauses) + 1
                        /\ FailingWithoutTab(k.job)' # {}]_vars
    /\ [](\A t \in Tabs :
             /\ Cardinality(Dispatching(t)) <= 1
             /\ \A k \in Dispatching(t) : tasks[k] = 1
             /\ exec[t] = "running" => Dispatching(t) = {})

\* C26 witness: START_JOB was sent to a ready tab and answered without
\* received = true: processJob has called handleJobFailure(null, ...), which
\* is about to report, and the executor was not started.
C26_Witness ==
    \E t \in Tabs :
        /\ t \in openTabs /\ t \in timers /\ exec[t] = "ready"
        /\ faults = 1
        /\ EventsBy("deliveryFailure", t, AllCauses) = 1
        /\ Dispatching(t) = {}
        /\ \E k \in FailingWithoutTab(tabJob[t]) : k.pc = "report"

\* the step closes tab t by chrome.tabs.remove (the tab is not destroyed from outside)
ClosedByWorker(t) == t \in openTabs /\ t \notin openTabs' /\ removed' = removed
\* the history holds a record of job j with a final status
HistoryUpdated(j) ==
    \E i \in 1..Len(history) : history[i].id = j /\ history[i].status # "processing"

\* C27: a step that closes an executor tab by chrome.tabs.remove is the last
\* step of a handleJobSuccess or handleJobFailure working with that tab, and
\* at that step every handler that has closed or is closing the tab has
\* written the stats record before, and the history holds the job's record
\* with a final status (in a run in which no processJob appends to the
\* history meanwhile: its write would store the list it read before).
C27_CloseAfterStatsAndHistory ==
    [][\A t \in Tabs :
          ClosedByWorker(t) =>
              /\ \E k \in Finalizing(t) :
                     /\ k.tab = t /\ k.pc = "close"
                     /\ tasks' = tasks (-) One(k)
                     /\ EventsBy("counted", t, {k.cause}) >= 1
              /\ Counted(t) >= EventsBy("returned", t, AllCauses)'
              /\ HistoryUpdated(tabJob[t])]_vars

\* C27 witness: handleJobSuccess has closed the tab of a job after counting
\* it and setting its history record to completed.
C27_Witness ==
    \E t \in Tabs :
        /\ t \notin openTabs /\ crashes = 0
        /\ EventsBy("returned", t, {"success"}) = 1
        /\ Counted(t) = 1
        /\ stats.succeeded = 1
        /\ history[1] = [id |-> tabJob[t], status |-> "completed"]

\* the step is one of handler k (it takes one copy of k out of the bag)
StepOf(k) == CopiesIn(k, tasks') < CopiesIn(k, tasks)

\* C28: a pollForJob that reads the enabled flag as false returns at once:
\* it does not go on to getNextJob, calls no other handler, and leaves the
\* backend queue, activeJobs, jobTimeouts and the timers, tabClosureRetries,
\* stats, history and the tabs as they are.
C28_DisabledPollIsNoOp ==
    [][\A k \in Waiting("pollForJob", "check") :
          (~isRunning /\ StepOf(k)) =>
              /\ tasks' = tasks (-) One(k)
              /\ UNCHANGED <<queue, activeJobs, jobTimeouts, timers, tabClosureRetries,
                             stats, history, openTabs, nextTabId, isRunning, alarm>>]_vars

\* C28 witness: STOP_POLLING has cleared the flag and not yet the alarm; the
\* alarm has fired and its pollForJob is over; the queued job is still
\* pending and nothing was dispatched.
C28_Witness ==
    /\ ~isRunning /\ alarm /\ stops = 1 /\ ticks = 1
    /\ Waiting("stopPolling", "clear") # {}
    /\ \A k \in DOMAIN tasks : k.kind = "stopPolling"
    /\ queue["j1"] = "pending"
    /\ nextTabId = 1 /\ history = <<>> /\ stats = InitialStats

\* C29: the two steps of STOP_POLLING (the message clears the enabled flag,
\* stopPolling clears the alarm) change nothing else: activeJobs, jobTimeouts
\* and the timers, tabClosureRetries, stats and history stay as they are and
\* no tab is closed.
C29_StopOnlyClearsAlarmAndFlag ==
    [][/\ stops' # stops =>
              /\ isRunning' = FALSE
              /\ UNCHANGED <<alarm, activeJobs, jobTimeouts, timers, tabClosureRetries,
                             stats, history, openTabs, nextTabId, queue>>
       /\ \A k \in Waiting("stopPolling", "clear") :
              StepOf(k) =>
                  /\ alarm' = FALSE
                  /\ UNCHANGED <<isRunning, activeJobs, jobTimeouts, timers,
                                 tabClosureRetries, stats, history, openTabs, nextTabId,
                                 queue>>]_vars

\* C29 witness: STOP_POLLING is over (flag and alarm cleared) while a job
\* that was re-dispatched after a crash is registered with its timeout and
\* its retry counter, in an open tab.
C29_Witness ==
    /\ ~isRunning /\ ~alarm /\ stops >= 1
    /\ Waiting("stopPolling", "clear") = {}
    /\ \E t \in Tabs :
           /\ activeJobs[t] # NoJob /\ t \in jobTimeouts /\ t \in timers /\ t \in openTabs
           /\ MapGet(tabClosureRetries, activeJobs[t]) = 1
    /\ stats.currentJob # NoJob /\ Len(history) = 2

\* C30: chrome.tabs.create is called for a job only in states where the
\* enabled flag is true.
C30_TabCreatedOnlyWhileEnabled ==
    [][nextTabId' # nextTabId => isRunning]_vars

\* C33: waitForTabLoad is in one of its rounds 1..30 and waitForContentScript
\* in one of its rounds 1..20, and a processJob that works with a tab comes to
\* its end: it has sent START_JOB and the executor runs the job, or it has
\* taken its catch block, also when the page never loads or the content
\* script never answers.
C33_HandshakeTerminates ==
    /\ [](\A k \in DOMAIN tasks :
             k.kind = "processJob" =>
                 /\ k.pc = "load" => k.att \in 1..TAB_LOAD_ATTEMPTS
                 /\ k.pc = "ping" => k.att \in 1..PING_ATTEMPTS)
    /\ \A t \in SoundTabs :
           (Dispatching(t) # {}) ~>
               /\ Dispatching(t) = {}
               /\ exec[t] = "running" \/ EventsBy("deliveryFailure", t, AllCauses) >= 1

\* C33 witness: the page loaded but its content script never answered ready:
\* processJob has taken its catch block after the last PING, before the
\* JOB_TIMEOUT of the tab.
C33_Witness ==
    \E t \in Tabs :
        /\ t \in openTabs /\ t \in timers /\ exec[t] = "complete"
        /\ Dispatching(t) = {}
        /\ EventsBy("deliveryFailure", t, AllCauses) = 1

\* no handler is in progress for tab t
Quiet(t) == \A k \in DOMAIN tasks : k.tab # t /\ k.inst # t

\* C34: whenever no handler is in progress for a tab, the tab has an entry
\* in activeJobs exactly when it has one in jobTimeouts.
C34_EntryIffTimeout ==
    \A t \in Tabs : Quiet(t) => (activeJobs[t] # NoJob <=> t \in jobTimeouts)

\* the history holds a record of job j
Recorded(j) == \E i \in 1..Len(history) : history[i].id = j

\* C35: once every handler is over, each job a tab was opened for has a
\* record in the history, and the record of a job whose finalizing handler
\* ran to its end carries a final status, also when addJobToHistory for one
\* job was interleaved with updateJobInHistory for another.
C35_HistoryKeepsEveryJob ==
    tasks = EmptyBag =>
        \A t \in Tabs :
            tabJob[t] # NoJob =>
                /\ Recorded(tabJob[t])
                /\ EventsBy("returned", t, AllCauses) >= 1 => HistoryUpdated(tabJob[t])

\* ---- START_POLLING against STOP_POLLING ----

NoneQueued == [j \in Jobs |-> "completed"]

\* polling is off and the backend queue is empty; START_POLLING and
\* STOP_POLLING arrive in any order, each handler running between the
\* steps of the other, the health check answers or throws, and the poll
\* alarm fires up to twice while it exists
InitControl ==
    InitWith(FALSE, NoneQueued,
             [tabs |-> 1, signals |-> 0, ticks |-> 2, crashes |-> 0, faults |-> 1])

NextControl == Control \/ Stopping \/ AlarmFires \/ Polling

SpecControl == InitControl /\ [][NextControl]_vars

\* C36: whenever no START_POLLING or STOP_POLLING handler is in progress
\* (no handler at all is suspended), the poll alarm exists if and only if
\* the stored enabled flag is true.
C36_AlarmIffEnabled == tasks = EmptyBag => (alarm <=> isRunning)

\* ==== the content script (executor side of START_JOB) ====

MaxStartJobs == 2  \* START_JOB messages one content script receives

\* the worker's own state, which the parts below leave alone
worker == <<isRunning, alarm, stats, history, orchestrator, timers, openTabs,
            nextTabId, removed, executor, queue, tasks, log, crashed,
            starts, stops, ticks, crashes, faults, limit, retrySettings>>

\* what the content script sends: the answer to START_JOB number msg
\* (sendResponse) or a runtime message about it
Sent(type, msg, job) == [type |-> type, msg |-> msg, jobId |-> job]

\* variant of the promise chain in which a settled automation stays pending
staysPending(rs, r) == rs
\* a promise settles once: its then/catch callback runs and it is done
settles(rs, r) == rs \ {r}

\* runtime.onMessage listener of the content script, START_JOB with a job:
\* start automateExclusiveSale(job), answer received = true, return
StartJobArrives ==
    \E job \in Jobs :
        /\ script = "loaded"
        /\ received < MaxStartJobs
        /\ received' = received + 1
        /\ runs' = runs \cup {[msg |-> received + 1, job |-> job]}
        /\ outbox' = Append(outbox, Sent("received", received + 1, job))
        /\ UNCHANGED <<worker, script, apiClient, logger>>

\* automateExclusiveSale(job) resolves (then: send JOB_SUCCESS) or rejects
\* (catch: send JOB_FAILED); every wait in it has a timeout
AutomationSettles(r) ==
    \E ok \in BOOLEAN :
        /\ script = "loaded"
        /\ r \in runs
        /\ runs' = settles(runs, r)
        /\ outbox' = Append(outbox, Sent(IF ok THEN "JOB_SUCCESS" ELSE "JOB_FAILED",
                                         r.msg, r.job))
        /\ UNCHANGED <<worker, script, received, apiClient, logger>>

\* the page of the content script goes away (tab closed, navigation): its
\* pending promises go with it
ScriptDestroyed ==
    /\ script = "loaded"
    /\ script' = "destroyed"
    /\ runs' = {}
    /\ UNCHANGED <<worker, received, outbox, apiClient, logger>>

AllRuns == [msg : 1..MaxStartJobs, job : Jobs]

InitContent ==
    InitWith(FALSE, NoneQueued,
             [tabs |-> 1, signals |-> 0, ticks |-> 0, crashes |-> 0, faults |-> 0])

NextContent ==
    \/ StartJobArrives
    \/ \E r \in AllRuns : AutomationSettles(r)
    \/ ScriptDestroyed

SpecContent == InitContent /\ [][NextContent]_vars

\* the same when every automation settles in the end (all its waits are
\* bounded by timeouts) unless the page goes away first
FairContent == \A r \in AllRuns : WF_vars(AutomationSettles(r))
SpecContentFair == SpecContent /\ FairContent

\* positions of the outbox that hold a message of one of the types about
\* START_JOB number m
SentAbout(m, types) ==
    {i \in 1..Len(outbox) : outbox[i].msg = m /\ outbox[i].type \in types}
Outcomes == {"JOB_SUCCESS", "JOB_FAILED"}

\* C31: for each START_JOB received, the content script has answered
\* received = true exactly once, has sent at most one outcome message
\* (JOB_SUCCESS or JOB_FAILED, never both), which comes after the answer and
\* carries the id of the job of that START_JOB, has sent exactly one once the
\* automation is over while the page lives; and each START_JOB received leads
\* to its outcome message or to the destruction of the page.
C31_AckThenOneOutcome ==
    /\ [](\A m \in 1..received :
            /\ Cardinality(SentAbout(m, {"received"})) = 1
            /\ Cardinality(SentAbout(m, Outcomes)) <= 1
            /\ \A i \in SentAbout(m, Outcomes) :
                  \E a \in SentAbout(m, {"received"}) :
                      a < i /\ outbox[i].jobId = outbox[a].jobId
            /\ (script = "loaded" /\ ~\E r \in runs : r.msg = m)
                  => Cardinality(SentAbout(m, Outcomes)) = 1)
    /\ \A m \in 1..MaxStartJobs :
          (received >= m) ~> (script = "destroyed" \/ SentAbout(m, Outcomes) # {})

\* two START_JOB were received and each has its answer and its one outcome,
\* a success for one and a failure for the other
C31_Witness ==
    /\ received = 2
    /\ script = "loaded"
    /\ runs = {}
    /\ \E i, k \in 1..Len(outbox) :
          outbox[i].type = "JOB_SUCCESS" /\ outbox[k].type = "JOB_FAILED"

\* ==== Logger (src/shared/logger.ts) ====

MAX_LOGS == 1000
MaxLogCalls == 3   \* Logger.log calls of one run
MaxClears == 1     \* Logger.clearLogs calls of one run

\* a Logger.log call: its entry, its position, the list it read, and the
\* caller (by: "log" for a caller outside the Logger, "clearLogs")
LogCall(entry, pc, by) ==
    [entry |-> entry, pc |-> pc, read |-> <<>>, saved |-> FALSE, by |-> by]
LogsAt(pc) == {k \in DOMAIN logCalls : k.pc = pc}
\* entries are told apart by a number; those of this run come after the
\* ones stored before it
NextEntry == MAX_LOGS + BagCardinality(logCalls) + 1

\* variant of line 36 that keeps the first MAX_LOGS entries
appendAndCut(ls, entry) == Take(Append(ls, entry), MAX_LOGS)
\* line 36: [...logs, entry].slice(-MAX_LOGS)
appendAndRotate(ls, entry) ==
    LET all == Append(ls, entry)
    IN  IF Len(all) <= MAX_LOGS THEN all
        ELSE SubSeq(all, Len(all) - MAX_LOGS + 1, Len(all))

\* Logger.log up to its first await (lines 20-30: build the entry)
LogStarts ==
    /\ BagCardinality(logCalls) < MaxLogCalls
    /\ logCalls' = logCalls (+) One(LogCall(NextEntry, "get", "log"))
    /\ UNCHANGED <<worker, contentScript, apiClient, logs>>

\* lines 32-33: read the stored list
LogReads ==
    \E k \in LogsAt("get") :
        /\ logCalls' = (logCalls (-) One(k)) (+) One([k EXCEPT !.pc = "set", !.read = logs])
        /\ UNCHANGED <<worker, contentScript, apiClient, logs>>

\* lines 36-39: append, rotate, store; a failing write is caught (line 45)
LogWrites ==
    \E k \in LogsAt("set") : \E ok \in BOOLEAN :
        /\ logs' = IF ok THEN appendAndRotate(k.read, k.entry) ELSE logs
        /\ logCalls' = (logCalls (-) One(k))
                       (+) One([k EXCEPT !.pc = "done", !.read = <<>>, !.saved = ok])
        /\ UNCHANGED <<worker, contentScript, apiClient>>

\* Logger.clearLogs: remove the stored list, then log 'Logs cleared'
ClearLogs ==
    /\ Cardinality({k \in DOMAIN logCalls : k.by = "clearLogs"}) < MaxClears
    /\ BagCardinality(logCalls) < MaxLogCalls
    /\ logs' = <<>>
    /\ logCalls' = logCalls (+) One(LogCall(NextEntry, "cleared", "clearLogs"))
    /\ UNCHANGED <<worker, contentScript, apiClient>>

\* clearLogs after its await: this.info('Logs cleared')
ClearLogsLogs ==
    \E k \in LogsAt("cleared") :
        /\ logCalls' = (logCalls (-) One(k)) (+) One([k EXCEPT !.pc = "get"])
        /\ UNCHANGED <<worker, contentScript, apiClient, logs>>

\* lengths of the list stored before the run
StoredLengths == {0, MAX_LOGS - 1, MAX_LOGS}

InitLogger ==
    \E n \in StoredLengths :
        /\ isRunning = FALSE
        /\ alarm = FALSE
        /\ stats = InitialStats
        /\ history = <<>>
        /\ activeJobs = <<NoJob>>
        /\ jobTimeouts = {}
        /\ tabClosureRetries = <<>>
        /\ timers = {}
        /\ openTabs = {}
        /\ nextTabId = 1
        /\ removed = {}
        /\ exec = <<"loading">>
        /\ tabJob = <<NoJob>>
        /\ signals = <<0>>
        /\ queue = NoneQueued
        /\ tasks = EmptyBag
        /\ log = EmptyBag
        /\ crashed = <<-1>>
        /\ starts = 0 /\ stops = 0 /\ ticks = 0 /\ crashes = 0 /\ faults = 0
        /\ limit = [tabs |-> 1, signals |-> 0, ticks |-> 0, crashes |-> 0, faults |-> 0]
        /\ retrySettings = [retryAttempts |-> 0, maxRetryDelay |-> 0]
        /\ script = "loaded" /\ received = 0 /\ runs = {} /\ outbox = <<>>
        /\ response = NoResponse /\ result = NoResult
        /\ pending = {} /\ cancel = NoCancel
        /\ logs = [i \in 1..n |-> i]
        /\ logCalls = EmptyBag

NextLogger == LogStarts \/ LogReads \/ LogWrites \/ ClearLogs \/ ClearLogsLogs

SpecLogger == InitLogger /\ [][NextLogger]_vars

\* C40: the stored log list never holds more than 1000 entries, and each
\* Logger.log call that stores a list stores the list it read with its own
\* entry appended at the end and, beyond 1000, shortened from the oldest
\* end: the new entry is the last one and the entries before it are the
\* newest ones of the list read, in the same order.
C40_LogsBounded ==
    /\ [](Len(logs) <= 1000)
    /\ [][\A k \in LogsAt("set") :
            [k EXCEPT !.pc = "done", !.read = <<>>, !.saved = TRUE] \in DOMAIN logCalls'
            => LET kept == Len(logs') - 1
                   dropped == Len(k.read) - kept
               IN  /\ Len(logs') = IF Len(k.read) + 1 <= 1000 THEN Len(k.read) + 1 ELSE 1000
                   /\ logs'[Len(logs')] = k.entry
                   /\ \A i \in 1..kept : logs'[i] = k.read[dropped + i]]_vars

\* a call that read a full list has stored its entry: the list is full,
\* ends with the entry and has lost its oldest entry
C40_Witness ==
    /\ Len(logs) = 1000
    /\ logs[1] = 2
    /\ \E k \in LogsAt("done") : k.saved /\ logs[1000] = k.entry

\* ==== ApiClient (src/shared/api-client.ts) ====

\* the worker at rest, as after install with an empty queue
WorkerIdle ==
    /\ isRunning = FALSE
    /\ alarm = FALSE
    /\ stats = InitialStats
    /\ history = <<>>
    /\ activeJobs = <<NoJob>>
    /\ jobTimeouts = {}
    /\ tabClosureRetries = <<>>
    /\ timers = {}
    /\ openTabs = {}
    /\ nextTabId = 1
    /\ removed = {}
    /\ exec = <<"loading">>
    /\ tabJob = <<NoJob>>
    /\ signals = <<0>>
    /\ queue = NoneQueued
    /\ tasks = EmptyBag
    /\ log = EmptyBag
    /\ crashed = <<-1>>
    /\ starts = 0 /\ stops = 0 /\ ticks = 0 /\ crashes = 0 /\ faults = 0
    /\ limit = [tabs |-> 1, signals |-> 0, ticks |-> 0, crashes |-> 0, faults |-> 0]
    /\ retrySettings = [retryAttempts |-> 0, maxRetryDelay |-> 0]

\* ---- ApiClient.request ----

\* HTTP statuses a call may see
Statuses == {200, 201, 204, 400, 401, 403, 404, 409, 429, 500, 503}
\* response bodies: a JSON object with a message, with an error only, with
\* neither; the JSON value null; text that is not JSON; nothing
Bodies == {"message", "error", "object", "null", "text", "empty"}

\* what fetch did: it rejected (TypeError 'Failed to fetch'), or it
\* answered with a status and a body
Responses ==
    {[fetch |-> "rejects", status |-> 0, body |-> "none"]}
        \cup [fetch : {"answers"}, status : Statuses, body : Bodies]

Returned == [threw |-> FALSE, kind |-> "value", message |-> "none"]
Thrown(kind, message) == [threw |-> TRUE, kind |-> kind, message |-> message]

\* response.ok
ok(status) == status >= 200 /\ status <= 299

\* lines 60-67: body.message || body.error || `HTTP ${status}`, the body
\* being the parsed JSON or, when it does not parse, { message: text }
errorMessage(body) ==
    CASE body = "message" -> "body.message"
      [] body = "error" -> "body.error"
      [] body = "text" -> "text"
      [] OTHER -> "HTTP status"

\* request: the value it returns or the error it throws.  Line 67 reads
\* error.message of the parsed body, which throws a TypeError for the JSON
\* value null (typeof null is 'object'); the catch of line 92 rethrows it
\* because its message does not mention fetch.  A 2xx body that does not
\* parse makes response.json() throw a SyntaxError (line 90), rethrown too.
request(resp) ==
    IF resp.fetch = "rejects" THEN Thrown("network", "Network error")
    ELSE IF ~ok(resp.status)
    THEN IF resp.body = "null" THEN Thrown("TypeError", "Cannot read properties of null")
         ELSE IF resp.status = 401 THEN Thrown("authentication", errorMessage(resp.body))
         ELSE IF resp.status = 403 THEN Thrown("forbidden", errorMessage(resp.body))
         ELSE IF resp.status = 404 THEN Thrown("notFound", errorMessage(resp.body))
         ELSE Thrown("generic", errorMessage(resp.body))
    ELSE IF resp.status = 204 THEN Returned
    ELSE IF resp.body \in {"text", "empty"} THEN Thrown("SyntaxError", "Unexpected token")
    ELSE Returned

\* one call of request, from fetch to its return or throw
Request ==
    /\ result = NoResult
    /\ result' = request(response)
    /\ UNCHANGED <<worker, contentScript, response, pending, cancel, logger>>

InitRequest ==
    /\ WorkerIdle
    /\ script = "loaded" /\ received = 0 /\ runs = {} /\ outbox = <<>>
    /\ response \in Responses
    /\ result = NoResult
    /\ pending = {} /\ cancel = NoCancel
    /\ logs = <<>> /\ logCalls = EmptyBag

SpecRequest == InitRequest /\ [][Request]_vars

\* C32: request throws for every non-2xx response, and what it throws is an
\* authentication failure for 401, forbidden for 403, not-found for 404, a
\* generic error for any other non-2xx status, a network error when fetch
\* itself fails; for a 2xx response it throws none of these.
C32_ErrorsClassified ==
    result # NoResult =>
        /\ response.fetch = "rejects" => result.threw /\ result.kind = "network"
        /\ (response.fetch = "answers"
                /\ (response.status < 200 \/ response.status > 299)) =>
              /\ result.threw
              /\ result.kind = CASE response.status = 401 -> "authentication"
                                 [] response.status = 403 -> "forbidden"
                                 [] response.status = 404 -> "notFound"
                                 [] OTHER -> "generic"
        /\ (response.fetch = "answers"
                /\ response.status >= 200 /\ response.status <= 299) =>
              ~(result.threw /\ result.kind \in {"authentication", "forbidden",
                                                  "notFound", "generic", "network"})

\* ---- ApiClient.cancelAllPendingJobs ----

PAGE_LIMIT == 100
MaxPending == 120      \* pending items in the queue when the call starts
MaxDeleteFaults == 1   \* deleteQueueItem calls that throw

\* numbers of pending items the call may find
PendingSizes == {0, 1, PAGE_LIMIT - 1, PAGE_LIMIT, PAGE_LIMIT + 1, MaxPending}

\* backend, GET /api/sale-queue?status=pending&page=p&limit=l: the p-th block
\* of l items among those pending now, in the order of their ids
getQueueItems(items, p, l) ==
    LET rank(x) == Cardinality({y \in items : y <= x})
        n == Cardinality(items)
        first == (p - 1) * l
        k == IF n - first >= l THEN l ELSE IF n > first THEN n - first ELSE 0
    IN  [i \in 1..k |-> CHOOSE x \in items : rank(x) = first + i]

\* lines 205-207: cancelled = 0, page = 1; atStart and failed are kept for
\* the record (how many items were pending, how many deletes threw)
CancelStarts ==
    /\ cancel.pc = "idle"
    /\ cancel' = [NoCancel EXCEPT !.pc = "list", !.page = 1,
                                  !.atStart = Cardinality(pending)]
    /\ UNCHANGED <<worker, contentScript, response, result, pending, logger>>

\* lines 210-214: fetch the page; an empty page ends the loop
CancelLists ==
    /\ cancel.pc = "list"
    /\ LET items == getQueueItems(pending, cancel.page, PAGE_LIMIT)
       IN  cancel' = IF Len(items) = 0
                     THEN [cancel EXCEPT !.pc = "done"]
                     ELSE [cancel EXCEPT !.pc = "delete", !.items = items,
                                         !.got = Len(items)]
    /\ UNCHANGED <<worker, contentScript, response, result, pending, logger>>

\* lines 217-231: delete the next item of the page (a throw is logged and
\* skipped); after the last one, a short page ends the loop, a full one
\* goes to page + 1
CancelDeletes ==
    \E deleted \in BOOLEAN :
        /\ cancel.pc = "delete"
        /\ deleted \/ cancel.failed < MaxDeleteFaults
        /\ pending' = IF deleted THEN pending \ {Head(cancel.items)} ELSE pending
        /\ LET counted == [cancel EXCEPT
                              !.items = Tail(cancel.items),
                              !.cancelled = IF deleted THEN @ + 1 ELSE @,
                              !.failed = IF deleted THEN @ ELSE @ + 1]
           IN  cancel' = IF Len(cancel.items) > 1 THEN counted
                         ELSE IF cancel.got < PAGE_LIMIT
                         THEN [counted EXCEPT !.pc = "done"]
                         ELSE [counted EXCEPT !.pc = "list", !.page = @ + 1]
        /\ UNCHANGED <<worker, contentScript, response, result, logger>>

InitCancel ==
    /\ WorkerIdle
    /\ script = "loaded" /\ received = 0 /\ runs = {} /\ outbox = <<>>
    /\ response = NoResponse /\ result = NoResult
    /\ \E n \in PendingSizes : pending = 1..n
    /\ cancel = NoCancel
    /\ logs = <<>> /\ logCalls = EmptyBag

NextCancel == CancelStarts \/ CancelLists \/ CancelDeletes

SpecCancel == InitCancel /\ [][NextCancel]_vars

\* C37: when cancelAllPendingJobs has returned and every delete call went
\* well (nothing is added to the queue meanwhile), no pending item is left
\* and the count returned is the number of items pending at the start.
C37_AllPendingCancelled ==
    (cancel.pc = "done" /\ cancel.failed = 0) =>
        /\ pending = {}
        /\ cancel.cancelled = cancel.atStart

\* ==== processJob with retried delivery (part_000, lines 594-710) ====
\* The earlier worker waits for the tab through a tabs.onUpdated listener
\* and delivers START_JOB with sendMessageWithRetry.  Its handleJobFailure
\* (lines 780-849) is the one modelled above, line for line.

DEFAULT_RETRY_ATTEMPTS == 10
DEFAULT_MAX_RETRY_DELAY == 30000
MaxStoredAttempts == 2   \* largest retryAttempts setting stored
\* maxRetryDelay settings stored, in ms (0: not set)
StoredDelays == {0, 500, 3000}

\* `stored || default`
orDefault(stored, default) == IF stored = 0 THEN default ELSE stored

Min(a, b) == IF a <= b THEN a ELSE b
\* variant of line 667 whose exponent is the attempt
backoffFromTwo(attempt, maxRetryDelay) == Min(1000 * 2^attempt, maxRetryDelay)
\* line 667: Math.min(1000 * Math.pow(2, attempt - 1), maxRetryDelay)
backoff(attempt, maxRetryDelay) == Min(1000 * 2^(attempt - 1), maxRetryDelay)

\* the tabs.onUpdated listener registered for a tab (line 637)
Listener(job, tab) == Task("processJob", "onUpdated", job, tab, tab, "poll")
\* chrome.scripting.executeScript in flight, then the 1 s timer of line 649
Injection(job, tab, pc) == Task("executeScript", pc, job, tab, tab, "inject")
\* one sendMessageWithRetry(attempt) with its locals; prev is the delay of
\* the attempt before (0 for the first), kept for the record
Chain(job, tab, attempt, prev) ==
    [kind |-> "sendMessageWithRetry", pc |-> "settings", job |-> job, tab |-> tab,
     inst |-> tab, cause |-> "delivery", att |-> attempt, st |-> InitialStats,
     hs |-> <<>>, maxAttempts |-> 0, maxRetryDelay |-> 0, delay |-> 0, prev |-> prev]

\* handleJobFailure(tabId, jobId, message) up to its first await, called
\* and not awaited (lines 654 and 692)
callHandleJobFailure(k, cause) ==
    /\ jobTimeouts' = failureTimeouts(jobTimeouts, k.tab)
    /\ timers' = failureTimers(timers, jobTimeouts, k.tab)
    /\ activeJobs' = failureActive(activeJobs, k.tab)
    /\ tabClosureRetries' = failureRetries(tabClosureRetries, k.job)
    /\ Resume(k, failureTask(k.tab, k.job, k.tab, cause))

\* the listener sees its tab complete (lines 638-697): it removes itself,
\* starts executeScript, and calls sendMessageWithRetry() at line 697
OnUpdatedComplete ==
    \E k \in Waiting("processJob", "onUpdated") :
        /\ k.tab \in openTabs
        /\ exec[k.tab] # "loading"
        /\ tasks' = ((tasks (-) One(k)) (+) One(Injection(k.job, k.tab, "inject")))
                        (+) One(Chain(k.job, k.tab, 1, 0))
        /\ UNCHANGED <<storage, orchestrator, browser, executor, queue, log, crashed, budget>>

\* executeScript resolves (line 649: a 1 s timer) or rejects (line 654:
\* handleJobFailure)
ExecuteScriptSettles ==
    \E k \in Waiting("executeScript", "inject") : \E injected \in BOOLEAN :
        /\ Outcome(injected)
        /\ IF injected /\ k.tab \in openTabs
           THEN /\ Resume(k, [k EXCEPT !.pc = "wait"])
                /\ UNCHANGED <<orchestrator, timers, log>>
           ELSE /\ callHandleJobFailure(k, "inject")
                /\ log' = Logged(Event("handleJobFailure", k.tab, k.job, "inject"))
        /\ UNCHANGED <<storage, alarm, openTabs, nextTabId, removed, executor, queue,
                       crashed, otherBudget>>

\* the timer of line 649 fires: sendMessageWithRetry() at line 650
InjectedTimerFires ==
    \E k \in Waiting("executeScript", "wait") :
        /\ Resume(k, Chain(k.job, k.tab, 1, 0))
        /\ UNCHANGED <<storage, orchestrator, browser, executor, queue, log, crashed, budget>>

\* lines 660-669: read the settings, compute the delay, start the timer
ChainReadsSettings ==
    \E k \in Waiting("sendMessageWithRetry", "settings") :
        LET maxAttempts == orDefault(retrySettings.retryAttempts, DEFAULT_RETRY_ATTEMPTS)
            maxRetryDelay == orDefault(retrySettings.maxRetryDelay, DEFAULT_MAX_RETRY_DELAY)
        IN  /\ Resume(k, [k EXCEPT !.pc = "sleep", !.maxAttempts = maxAttempts,
                                   !.maxRetryDelay = maxRetryDelay,
                                   !.delay = backoff(k.att, maxRetryDelay)])
            /\ UNCHANGED <<storage, orchestrator, browser, executor, queue, log, crashed,
                           budget>>

\* the delay timer of line 669 fires
ChainSleeps ==
    \E k \in Waiting("sendMessageWithRetry", "sleep") :
        /\ Resume(k, [k EXCEPT !.pc = "send"])
        /\ UNCHANGED <<storage, orchestrator, browser, executor, queue, log, crashed, budget>>

\* the content script of the tab is listening and answers START_JOB with
\* received = true (part_000, lines 308-335)
listening(tab) == tab \in openTabs /\ exec[tab] \in {"ready", "running"}

\* lines 671-694: send START_JOB; an acknowledgment ends the chain, anything
\* else goes to the next attempt or, after the last one, to handleJobFailure
ChainSends ==
    \E k \in Waiting("sendMessageWithRetry", "send") :
        /\ IF listening(k.tab)
           THEN /\ exec' = [exec EXCEPT ![k.tab] = "running"]
                /\ Return(k)
                /\ log' = Logged(Event("startJob", k.tab, k.job, "delivery"))
                              (+) One(Event("acknowledged", k.tab, k.job, "delivery"))
                /\ UNCHANGED <<orchestrator, timers>>
           ELSE IF k.att < k.maxAttempts
           THEN /\ Resume(k, Chain(k.job, k.tab, k.att + 1, k.delay))
                /\ log' = Logged(Event("startJob", k.tab, k.job, "delivery"))
                /\ UNCHANGED <<orchestrator, timers, exec>>
           ELSE /\ callHandleJobFailure(k, "delivery")
                /\ log' = Logged(Event("startJob", k.tab, k.job, "delivery"))
                              (+) One(Event("handleJobFailure", k.tab, k.job, "delivery"))
                /\ UNCHANGED exec
        /\ UNCHANGED <<storage, alarm, openTabs, nextTabId, removed, tabJob, signals,
                       queue, crashed, budget>>

Retrying ==
    \/ OnUpdatedComplete
    \/ ExecuteScriptSettles
    \/ InjectedTimerFires
    \/ ChainReadsSettings
    \/ ChainSleeps
    \/ ChainSends

\* The earlier worker after pollForJob fetched job j1 and processJob ran to
\* its end (lines 594-637): currentJob written, one history record
\* unshifted, tab 1 created, registered and timed, the listener registered.
AfterListenerRegistered ==
    /\ isRunning = TRUE
    /\ alarm = TRUE
    /\ stats = [InitialStats EXCEPT !.currentJob = "j1"]
    /\ history = <<[id |-> "j1", status |-> "processing"]>>
    /\ activeJobs = [t \in {1} |-> "j1"]
    /\ jobTimeouts = {1}
    /\ tabClosureRetries = <<>>
    /\ timers = {1}
    /\ openTabs = {1}
    /\ nextTabId = 2
    /\ removed = {}
    /\ exec = [t \in {1} |-> "loading"]
    /\ tabJob = [t \in {1} |-> "j1"]
    /\ signals = [t \in {1} |-> 0]
    /\ queue = [j \in Jobs |-> IF j = "j1" THEN "processing" ELSE "completed"]
    /\ tasks = One(Listener("j1", 1))
    /\ log = EmptyBag
    /\ crashed = [t \in {1} |-> -1]
    /\ starts = 0 /\ stops = 0 /\ ticks = 1 /\ crashes = 0 /\ faults = 0
    /\ limit = [tabs |-> 1, signals |-> 0, ticks |-> 1, crashes |-> 0, faults |-> 1]
    /\ \E a \in 0..MaxStoredAttempts, d \in StoredDelays :
          retrySettings = [retryAttempts |-> a, maxRetryDelay |-> d]
    /\ script = "loaded" /\ received = 0 /\ runs = {} /\ outbox = <<>>
    /\ response = NoResponse /\ result = NoResult
    /\ pending = {} /\ cancel = NoCancel
    /\ logs = <<>> /\ logCalls = EmptyBag

NextRetrying ==
    \/ \E t \in Tabs : TabLoads(t)
    \/ \E t \in Tabs : ContentScriptReady(t)
    \/ Retrying
    \/ Failure

SpecRetrying == AfterListenerRegistered /\ [][NextRetrying]_vars

\* C38: the START_JOB messages sent to a tab are at most maxAttempts, the
\* failed delivery to a tab is finalized at most once (one handleJobFailure
\* call, one failJob report), and START_JOB is acknowledged at most once.
C38_BoundedRetries ==
    \A t \in Tabs :
        /\ EventsBy("startJob", t, {"delivery"})
              <= orDefault(retrySettings.retryAttempts, DEFAULT_RETRY_ATTEMPTS)
        /\ EventsBy("handleJobFailure", t, {"delivery"}) <= 1
        /\ EventsBy("failJob", t, {"delivery"}) <= 1
        /\ EventsBy("acknowledged", t, {"delivery"}) <= 1

\* the sendMessageWithRetry calls that have computed their delay
Delayed == {k \in DOMAIN tasks : k.kind = "sendMessageWithRetry" /\ k.pc \in {"sleep", "send"}}

\* C39: the delay of attempt n is min(1000 * 2^(n-1), maxRetryDelay): it is
\* at most maxRetryDelay, at least the delay of attempt n - 1, and 1000 for
\* n = 1 when maxRetryDelay is at least 1000.
C39_BackoffDelay ==
    \A k \in Delayed :
        /\ k.att >= 1
        /\ k.delay = IF 1000 * 2^(k.att - 1) <= k.maxRetryDelay
                     THEN 1000 * 2^(k.att - 1) ELSE k.maxRetryDelay
        /\ k.delay <= k.maxRetryDelay
        /\ k.prev <= k.delay
        /\ (k.att = 1 /\ k.maxRetryDelay >= 1000) => k.delay = 1000

\* a third attempt whose delay is cut to a maxRetryDelay of 3000, after a
\* second attempt that waited 2000
C39_Witness ==
    \E k \in Delayed :
        k.att = 3 /\ k.maxRetryDelay = 3000 /\ k.delay = 3000 /\ k.prev = 2000

====
